---- MODULE Spec2Model ----
(***************************************************************************)
(* Ledger / budget consistency engine of The Brilliant Emporium.           *)
(*                                                                         *)
(* The state is the content of the database tables (accounts, categories,  *)
(* transactions, transfers, budgets).  Every route handler is one action:  *)
(* the handler runs inside one SQLAlchemy session and ends with one        *)
(* db.session.commit(), so it is modelled as one atomic step.  Each        *)
(* handler is written as an operator that yields the tables it commits     *)
(* (a rejected request yields them unchanged), and the action of the       *)
(* handler installs that result.                                           *)
(*                                                                         *)
(* Money is counted in whole units of the smallest stored amount           *)
(* (Numeric(12, 2): cents), dates in whole days.                           *)
(***************************************************************************)
EXTENDS Integers, FiniteSets, Sequences, TLC

\* ------------------------------------------------------------------ bounds
\* Largest amount a request carries (requests also carry 0 and -1).
MaxAmount == 2
\* Most rows (transactions and transfers together) the ledger holds, and the
\* largest id it hands out.
MaxEntries == 2
\* Largest budget id the budget engine hands out.
MaxBudgets == 2

\* Number of requests the interleaved specification runs, all of which may be
\* in flight at once.
MaxRequests == 2

\* Largest category id the category specification hands out.
MaxCategories == 5

\* Largest account id the account and settings specification hands out.
MaxAccounts == 4

\* ------------------------------------------------------- program constants
\* date.today(): the day every request of a behaviour is made on.  Dates are
\* written as the number YYYYMMDD, which orders them as the calendar does.
Today == 20250210

INCOME == "income"
EXPENSE == "expense"
TransactionType == {INCOME, EXPENSE}

\* ------------------------------------------------------------------- state
VARIABLES
    accounts,       \* id -> [user_id, initial_balance, current_balance, is_active]
    categories,     \* id -> [user_id, type, parent_id, is_system, is_active]
    transactions,   \* id -> [user_id, amount, type, date, account_id, category_id]
    transfers,      \* id -> [user_id, amount, date, from_account_id, to_account_id]
    budgets,        \* id -> [user_id, category_id, month, amount]
    requests,       \* interleaved requests: id -> what the request read, or done
    last,           \* the request served last: [op, why, user]
    snap            \* the ledger as it was before the create served last

vars == <<accounts, categories, transactions, transfers, budgets, requests, last, snap>>

\* ----------------------------------------------------------------- helpers
Users == {1, 2}

NoRows == [i \in {} |-> 0]

Max(S) == CHOOSE x \in S : \A y \in S : y <= x

\* The id the database gives the next row of a table (integer primary key:
\* one more than the largest id in use).
NextId(table) == IF DOMAIN table = {} THEN 1 ELSE Max(DOMAIN table) + 1

Insert(table, id, row) == [i \in DOMAIN table \cup {id} |-> IF i = id THEN row ELSE table[i]]

\* (Remove_bug: the row is left in the table.)
Remove_bug(table, id) == table

\* db.session.delete(row)
Remove(table, id) == [i \in DOMAIN table \ {id} |-> table[i]]

\* Session.get / query.get: the row, looked up by primary key alone.
Exists(table, id) == id \in DOMAIN table

RECURSIVE SumAmounts(_, _)
\* Sum of table[i].amount over the ids i in S.
SumAmounts(table, S) ==
    IF S = {} THEN 0
    ELSE LET i == CHOOSE x \in S : TRUE
         IN table[i].amount + SumAmounts(table, S \ {i})

\* --------------------------------------------------------------- the model
\* Account.update_balance(transaction_type, amount), on the row account_id.
\* (update_balance_bug is the same method with the sign of the expense branch lost.)
update_balance_bug(accts, account_id, transaction_type, amount) ==
    [accts EXCEPT ![account_id].current_balance = @ + amount]

update_balance(accts, account_id, transaction_type, amount) ==
    [accts EXCEPT ![account_id].current_balance =
        IF transaction_type = INCOME THEN @ + amount ELSE @ - amount]

\* (reverse_balance_bug: the old effect is not taken back.)
reverse_balance_bug(accts, account_id, transaction_type, amount) == accts

\* The reversal the edit, delete and bulk-delete handlers spell out inline:
\* income is taken back out of the balance, an expense is put back.
reverse_balance(accts, account_id, transaction_type, amount) ==
    [accts EXCEPT ![account_id].current_balance =
        IF transaction_type = INCOME THEN @ - amount ELSE @ + amount]

\* account.current_balance -= amount
debit(accts, account_id, amount) ==
    [accts EXCEPT ![account_id].current_balance = @ - amount]

\* (credit_bug: the destination leg is lost.)
credit_bug(accts, account_id, amount) == accts

\* account.current_balance += amount
credit(accts, account_id, amount) ==
    [accts EXCEPT ![account_id].current_balance = @ + amount]

\* (insufficient_balance_bug: a balance equal to the amount is refused too.)
insufficient_balance_bug(balance, amount) == balance <= amount

\* float(from_account.current_balance) < float(form.amount)
insufficient_balance(balance, amount) == balance < amount

\* Validators of the forms.
PositiveAmount(amount) == ~(amount <= 0)

DateNotFuture(d) == ~(d > Today)

\* The account choices every form offers: the caller's active accounts.
account_choices(u) ==
    {a \in DOMAIN accounts : accounts[a].user_id = u /\ accounts[a].is_active}

\* TransactionForm.set_category_choices: active categories of the type.
set_category_choices(transaction_type) ==
    {c \in DOMAIN categories :
        categories[c].type = transaction_type /\ categories[c].is_active}

\* The category choices the edit handler installs: the caller's active categories.
edit_category_choices(u) ==
    {c \in DOMAIN categories : categories[c].user_id = u /\ categories[c].is_active}

\* TransactionForm.validate_on_submit with the given choices.
TransactionForm_validate(form, accts, cats) ==
    /\ form.type \in TransactionType
    /\ PositiveAmount(form.amount)
    /\ DateNotFuture(form.date)
    /\ form.account_id \in accts
    /\ form.category_id \in cats

\* CHECK (amount > 0) of the transactions and transfers tables.
check_positive_amount(amount) == amount > 0

\* What a ledger handler commits.
Ledger(why, id, accts, txns, trs) ==
    [why |-> why, id |-> id, accounts |-> accts, transactions |-> txns, transfers |-> trs]

\* A request that commits nothing.
Rejected(why) == Ledger(why, 0, accounts, transactions, transfers)

\* POST /transactions/create by user u.
transactions_create(u, form) ==
    IF ~TransactionForm_validate(form, account_choices(u), set_category_choices(form.type))
    THEN Rejected("invalid")
    ELSE LET id == NextId(transactions)
             row == [user_id |-> u, amount |-> form.amount, type |-> form.type,
                     date |-> form.date, account_id |-> form.account_id,
                     category_id |-> form.category_id]
             accts == IF Exists(accounts, form.account_id)
                      THEN update_balance(accounts, form.account_id, form.type, form.amount)
                      ELSE accounts
         IN Ledger("ok", id, accts, Insert(transactions, id, row), transfers)

\* POST /transactions/api/quick-add by user u.  Nothing is validated by the
\* handler; the commit fails on the CHECK constraint and the exception handler
\* answers 400, the session's pending changes being discarded with it.
quick_add(u, data) ==
    IF data.type \notin TransactionType
    THEN Rejected("invalid")
    ELSE LET id == NextId(transactions)
             row == [user_id |-> u, amount |-> data.amount, type |-> data.type,
                     date |-> data.date, account_id |-> data.account_id,
                     category_id |-> data.category_id]
             accts == IF Exists(accounts, data.account_id)
                      THEN update_balance(accounts, data.account_id, data.type, data.amount)
                      ELSE accounts
         IN IF ~check_positive_amount(row.amount)
            THEN Rejected("invalid")
            ELSE Ledger("ok", id, accts, Insert(transactions, id, row), transfers)

\* POST /transactions/<id>/edit by user u.
transactions_edit(u, transaction_id, form) ==
    IF ~(Exists(transactions, transaction_id) /\ transactions[transaction_id].user_id = u)
    THEN Rejected("not_found")
    ELSE IF ~TransactionForm_validate(form, account_choices(u), edit_category_choices(u))
    THEN Rejected("invalid")
    ELSE LET old == transactions[transaction_id]
             row == [old EXCEPT !.amount = form.amount, !.type = form.type,
                                !.date = form.date, !.account_id = form.account_id,
                                !.category_id = form.category_id]
             reversed == IF Exists(accounts, old.account_id)
                         THEN reverse_balance(accounts, old.account_id, old.type, old.amount)
                         ELSE accounts
             applied == IF Exists(reversed, form.account_id)
                        THEN update_balance(reversed, form.account_id, form.type, form.amount)
                        ELSE reversed
         IN Ledger("ok", transaction_id, applied,
                   [transactions EXCEPT ![transaction_id] = row], transfers)

\* POST /transactions/<id>/delete by user u.
transactions_delete(u, transaction_id) ==
    IF ~(Exists(transactions, transaction_id) /\ transactions[transaction_id].user_id = u)
    THEN Rejected("not_found")
    ELSE LET t == transactions[transaction_id]
             accts == IF Exists(accounts, t.account_id)
                      THEN reverse_balance(accounts, t.account_id, t.type, t.amount)
                      ELSE accounts
         IN Ledger("ok", transaction_id, accts, Remove(transactions, transaction_id), transfers)

\* (bulk_found_bug: the listed transactions, whoever owns them.)
bulk_found_bug(u, transaction_ids) ==
    {t \in DOMAIN transactions : \E k \in DOMAIN transaction_ids : transaction_ids[k] = t}

\* Transaction.id.in_(transaction_ids), Transaction.user_id == current_user.id
bulk_found(u, transaction_ids) ==
    {t \in DOMAIN transactions :
        /\ \E k \in DOMAIN transaction_ids : transaction_ids[k] = t
        /\ transactions[t].user_id = u}

RECURSIVE bulk_reverse(_, _, _)
\* The loop of bulk_delete over the transactions found: each one's effect is
\* taken back from its account (if the account exists) and the row deleted.
bulk_reverse(accts, txns, found) ==
    IF found = {} THEN [accounts |-> accts, transactions |-> txns]
    ELSE LET id == CHOOSE t \in found : \A other \in found : t <= other
             t == txns[id]
             reversed == IF Exists(accts, t.account_id)
                         THEN reverse_balance(accts, t.account_id, t.type, t.amount)
                         ELSE accts
         IN bulk_reverse(reversed, Remove(txns, id), found \ {id})

\* POST /transactions/bulk-delete by user u: one commit after the loop.
bulk_delete(u, transaction_ids) ==
    IF Len(transaction_ids) = 0
    THEN Rejected("invalid")
    ELSE LET r == bulk_reverse(accounts, transactions, bulk_found(u, transaction_ids))
         IN Ledger("ok", 0, r.accounts, r.transactions, transfers)

\* TransferForm.validate: the field validators, then the two accounts differ.
TransferForm_validate(form, accts) ==
    /\ PositiveAmount(form.amount)
    /\ DateNotFuture(form.date)
    /\ form.from_account_id \in accts
    /\ form.to_account_id \in accts
    /\ ~(form.from_account_id = form.to_account_id)

\* (transfers_create_bug: the transfer is also recorded as an expense of the
\* source account, in the caller's first expense category.)
transfers_create_bug(u, form) ==
    IF ~TransferForm_validate(form, account_choices(u))
    THEN Rejected("invalid")
    ELSE IF ~Exists(accounts, form.from_account_id) \/ ~Exists(accounts, form.to_account_id)
    THEN Rejected("invalid")
    ELSE IF insufficient_balance(accounts[form.from_account_id].current_balance, form.amount)
    THEN Rejected("insufficient")
    ELSE LET id == NextId(transfers)
             row == [user_id |-> u, amount |-> form.amount, date |-> form.date,
                     from_account_id |-> form.from_account_id,
                     to_account_id |-> form.to_account_id]
             debited == debit(accounts, form.from_account_id, form.amount)
             credited == credit(debited, form.to_account_id, form.amount)
             mine == {c \in DOMAIN categories :
                         categories[c].user_id = u /\ categories[c].type = EXPENSE}
             entry == [user_id |-> u, amount |-> form.amount, type |-> EXPENSE,
                       date |-> form.date, account_id |-> form.from_account_id,
                       category_id |-> CHOOSE c \in mine : \A x \in mine : c <= x]
         IN Ledger("ok", id, credited,
                   Insert(transactions, NextId(transactions), entry),
                   Insert(transfers, id, row))

\* POST /transfers/create by user u.
transfers_create(u, form) ==
    IF ~TransferForm_validate(form, account_choices(u))
    THEN Rejected("invalid")
    ELSE IF ~Exists(accounts, form.from_account_id) \/ ~Exists(accounts, form.to_account_id)
    THEN Rejected("invalid")
    ELSE IF insufficient_balance(accounts[form.from_account_id].current_balance, form.amount)
    THEN Rejected("insufficient")
    ELSE LET id == NextId(transfers)
             row == [user_id |-> u, amount |-> form.amount, date |-> form.date,
                     from_account_id |-> form.from_account_id,
                     to_account_id |-> form.to_account_id]
             debited == debit(accounts, form.from_account_id, form.amount)
             credited == credit(debited, form.to_account_id, form.amount)
         IN Ledger("ok", id, credited, transactions, Insert(transfers, id, row))

\* POST /transfers/<id>/delete by user u.
transfers_delete(u, transfer_id) ==
    IF ~(Exists(transfers, transfer_id) /\ transfers[transfer_id].user_id = u)
    THEN Rejected("not_found")
    ELSE LET t == transfers[transfer_id]
             back == IF Exists(accounts, t.from_account_id)
                     THEN credit(accounts, t.from_account_id, t.amount)
                     ELSE accounts
             out == IF Exists(back, t.to_account_id)
                    THEN debit(back, t.to_account_id, t.amount)
                    ELSE back
         IN Ledger("ok", transfer_id, out, transactions, Remove(transfers, transfer_id))

\* ------------------------------------------------------------ budget engine
\* ValidMonth: six characters, a year from 2000 to 2100, a month from 1 to 12.
ValidMonth(month) ==
    /\ month >= 100000 /\ month <= 999999
    /\ ~((month \div 100) < 2000 \/ (month \div 100) > 2100)
    /\ ~((month % 100) < 1 \/ (month % 100) > 12)

\* The category choices of the budget form: the caller's active expense categories.
budget_category_choices(u) ==
    {c \in DOMAIN categories :
        /\ categories[c].user_id = u
        /\ categories[c].type = EXPENSE
        /\ categories[c].is_active}

\* BudgetForm.validate_on_submit with the given choices.
BudgetForm_validate(form, cats) ==
    /\ form.category_id \in cats
    /\ PositiveAmount(form.amount)
    /\ ValidMonth(form.month)

\* (existing_bug: the handler's look-up for a budget of the triple is missing.)
existing_bug(u, category_id, month, budget_id) == FALSE

\* Budget.query.filter_by(user_id, category_id, month) [, Budget.id != budget_id]
\* .first(): a budget of the triple, other than budget_id, is stored.
existing(u, category_id, month, budget_id) ==
    \E b \in DOMAIN budgets \ {budget_id} :
        /\ budgets[b].user_id = u
        /\ budgets[b].category_id = category_id
        /\ budgets[b].month = month

\* The constraints of the budgets table, which the commit enforces:
\* uq_user_category_month, check_valid_month, check_budget_amount.
budgets_constraints(rows) ==
    /\ \A b \in DOMAIN rows :
          /\ rows[b].month >= 200001 /\ rows[b].month <= 209912
          /\ rows[b].amount >= 0
    /\ \A b, c \in DOMAIN rows :
          (/\ rows[b].user_id = rows[c].user_id
           /\ rows[b].category_id = rows[c].category_id
           /\ rows[b].month = rows[c].month) => b = c

Budgets(why, id, rows) == [why |-> why, id |-> id, budgets |-> rows]

\* POST /budgets/create by user u.
budgets_create(u, form) ==
    IF ~BudgetForm_validate(form, budget_category_choices(u))
    THEN Budgets("invalid", 0, budgets)
    ELSE IF existing(u, form.category_id, form.month, 0)
    THEN Budgets("duplicate", 0, budgets)
    ELSE LET id == NextId(budgets)
             row == [user_id |-> u, category_id |-> form.category_id,
                     month |-> form.month, amount |-> form.amount]
             rows == Insert(budgets, id, row)
         IN IF budgets_constraints(rows)
            THEN Budgets("ok", id, rows)
            ELSE Budgets("error", 0, budgets)

\* (budgets_edit_bug: the edit is committed with neither the look-up for a
\* budget of the triple nor the table's unique constraint.)
budgets_edit_bug(u, budget_id, form) ==
    IF ~(Exists(budgets, budget_id) /\ budgets[budget_id].user_id = u)
    THEN Budgets("not_found", 0, budgets)
    ELSE IF ~BudgetForm_validate(form, budget_category_choices(u))
    THEN Budgets("invalid", 0, budgets)
    ELSE Budgets("ok", budget_id,
                 [budgets EXCEPT ![budget_id].amount = form.amount,
                                 ![budget_id].month = form.month,
                                 ![budget_id].category_id = form.category_id])

\* POST /budgets/<id>/edit by user u.
budgets_edit(u, budget_id, form) ==
    IF ~(Exists(budgets, budget_id) /\ budgets[budget_id].user_id = u)
    THEN Budgets("not_found", 0, budgets)
    ELSE IF ~BudgetForm_validate(form, budget_category_choices(u))
    THEN Budgets("invalid", 0, budgets)
    ELSE IF existing(u, form.category_id, form.month, budget_id)
    THEN Budgets("duplicate", 0, budgets)
    ELSE LET rows == [budgets EXCEPT ![budget_id].amount = form.amount,
                                     ![budget_id].month = form.month,
                                     ![budget_id].category_id = form.category_id]
         IN IF budgets_constraints(rows)
            THEN Budgets("ok", budget_id, rows)
            ELSE Budgets("error", 0, budgets)

\* POST /budgets/<id>/delete by user u.
budgets_delete(u, budget_id) ==
    IF ~(Exists(budgets, budget_id) /\ budgets[budget_id].user_id = u)
    THEN Budgets("not_found", 0, budgets)
    ELSE Budgets("ok", budget_id, Remove(budgets, budget_id))

\* -------------------------------------------------------------- quick setup
\* A month value of the request body is a string, written here as the
\* sequence of its characters; the empty sequence stands for a missing value
\* (None) as well as for the empty string.
DigitValue ==
    ("0" :> 0) @@ ("1" :> 1) @@ ("2" :> 2) @@ ("3" :> 3) @@ ("4" :> 4) @@
    ("5" :> 5) @@ ("6" :> 6) @@ ("7" :> 7) @@ ("8" :> 8) @@ ("9" :> 9)

\* string[a:b]
Slice(string, a, b) ==
    SubSeq(string, a + 1, IF b < Len(string) THEN b ELSE Len(string))

RECURSIVE DigitsValue(_)
DigitsValue(string) ==
    IF Len(string) = 0 THEN 0
    ELSE 10 * DigitsValue(SubSeq(string, 1, Len(string) - 1)) + DigitValue[string[Len(string)]]

\* The answer int() gives for a ValueError.
ValueError == 0 - 1

\* int(string) for strings of digits and letters: the number written, or a
\* ValueError when the string is empty or holds anything but digits.
int(string) ==
    IF Len(string) = 0 \/ \E i \in 1 .. Len(string) : string[i] \notin DOMAIN DigitValue
    THEN ValueError
    ELSE DigitsValue(string)

\* date(year, month, 1) raises a ValueError outside these ranges.
date_ok(year, month) == year >= 1 /\ year <= 9999 /\ month >= 1 /\ month <= 12

\* (month_missing_bug: the guard "if not month" is absent.)
month_missing_bug(month) == FALSE

\* not month
month_missing(month) == Len(month) = 0

\* The month (as the key YYYYMM) whose transactions quick_setup adds up:
\* prev_year and prev_month of the handler.
prev_month_key(year, month_num) ==
    IF month_num = 1 THEN (year - 1) * 100 + 12 ELSE year * 100 + (month_num - 1)

\* The rows the spending query joins and filters for one category: the
\* caller's expense transactions of the category dated in the month.
spending_rows(u, category_id, key) ==
    {t \in DOMAIN transactions :
        /\ transactions[t].category_id = category_id
        /\ transactions[t].user_id = u
        /\ transactions[t].type = EXPENSE
        /\ transactions[t].date \div 100 = key}

\* The categories the spending query returns a row for (GROUP BY Category.id
\* over the join, Category.is_active).
spending_categories(u, key) ==
    {c \in DOMAIN categories :
        categories[c].is_active /\ spending_rows(u, c, key) # {}}

\* (reduced_bug: the full amount spent is budgeted.)
reduced_bug(spent) == spent

\* float(item.spent) * 0.9, as the Numeric(12, 2) column gives it back: to the
\* nearest hundredth (amounts are counted in hundredths).
reduced(spent) == (9 * spent + 5) \div 10

\* (setup_budget_bug: a budget that exists is overwritten with the new amount.)
setup_budget_bug(rows, u, category_id, month, amount) ==
    IF \E b \in DOMAIN rows : rows[b].user_id = u /\ rows[b].category_id = category_id
                              /\ rows[b].month = month
    THEN [b \in DOMAIN rows |->
            IF rows[b].user_id = u /\ rows[b].category_id = category_id
               /\ rows[b].month = month
            THEN [rows[b] EXCEPT !.amount = amount] ELSE rows[b]]
    ELSE Insert(rows, NextId(rows),
                [user_id |-> u, category_id |-> category_id, month |-> month,
                 amount |-> amount])

\* One round of the loop of quick_setup: the budget is added unless one of
\* the triple exists (the session's pending rows are flushed before the query).
setup_budget(rows, u, category_id, month, amount) ==
    IF \E b \in DOMAIN rows : rows[b].user_id = u /\ rows[b].category_id = category_id
                              /\ rows[b].month = month
    THEN rows
    ELSE Insert(rows, NextId(rows),
                [user_id |-> u, category_id |-> category_id, month |-> month,
                 amount |-> amount])

RECURSIVE setup_budgets(_, _, _, _, _)
\* The loop of quick_setup over the rows of the spending query, taken in the
\* order of the category ids.
setup_budgets(rows, u, cats, key, month) ==
    IF cats = {} THEN rows
    ELSE LET c == CHOOSE x \in cats : \A y \in cats : x <= y
             spent == SumAmounts(transactions, spending_rows(u, c, key))
             next == IF spent > 0
                     THEN setup_budget(rows, u, c, month, reduced(spent))
                     ELSE rows
         IN setup_budgets(next, u, cats \ {c}, key, month)

\* POST /budgets/quick-setup by user u with the month of the request body.
\* An exception the handler does not catch (int() or date() raising
\* ValueError, the commit raising IntegrityError) is answered "error" (500).
quick_setup(u, month) ==
    IF month_missing(month)
    THEN Budgets("month_required", 0, budgets)
    ELSE LET year == int(Slice(month, 0, 4))
             month_num == int(Slice(month, 4, 6))
         IN IF year = ValueError \/ month_num = ValueError
            THEN Budgets("error", 0, budgets)
            ELSE LET prev_month == IF month_num = 1 THEN 12 ELSE month_num - 1
                     prev_year == IF month_num = 1 THEN year - 1 ELSE year
                     next_year == IF prev_month = 12 THEN prev_year + 1 ELSE prev_year
                     next_month == IF prev_month = 12 THEN 1 ELSE prev_month + 1
                 IN IF ~date_ok(prev_year, prev_month) \/ ~date_ok(next_year, next_month)
                    THEN Budgets("error", 0, budgets)
                    ELSE LET key == prev_month_key(year, month_num)
                             cats == spending_categories(u, key)
                             rows == setup_budgets(budgets, u, cats, key, int(month))
                         IN IF cats # {} /\ int(month) = ValueError
                            THEN Budgets("error", 0, budgets)
                            ELSE IF budgets_constraints(rows)
                            THEN Budgets("ok", 0, rows)
                            ELSE Budgets("error", 0, budgets)

\* ----------------------------------------------------------- category tree
\* parent_id 0 stands for no parent (NULL).
\* Category.subcategories: the rows whose parent_id is the category.
subcategories(cats, category_id) ==
    {c \in DOMAIN cats : cats[c].parent_id = category_id}

RECURSIVE Subtree(_, _, _)
\* The categories reached from the set frontier by following subcategories,
\* frontier included (seen: those already visited).
Subtree(cats, frontier, seen) ==
    IF frontier \subseteq seen THEN seen
    ELSE LET c == CHOOSE x \in frontier \ seen : TRUE
         IN Subtree(cats, (frontier \ {c}) \cup subcategories(cats, c), seen \cup {c})

\* is_self_or_descendant(cat, target_id) of the edit handler: target_id is
\* cat or lies below cat.
is_self_or_descendant(cats, cat, target_id) == target_id \in Subtree(cats, {cat}, {})

\* The parent choices of the create form: none, or one of the caller's active
\* top-level categories.
create_parent_choices(u) ==
    {0} \cup {c \in DOMAIN categories :
                /\ categories[c].user_id = u
                /\ categories[c].parent_id = 0
                /\ categories[c].is_active}

\* (available_parents_bug: every active category of the caller but the edited
\* one is offered, whatever its place in the tree.)
available_parents_bug(u, category_id) ==
    {c \in DOMAIN categories :
        /\ categories[c].user_id = u
        /\ categories[c].is_active
        /\ c # category_id}

\* available_parents of the edit handler.
available_parents(u, category_id) ==
    {c \in DOMAIN categories :
        /\ categories[c].user_id = u
        /\ categories[c].is_active
        /\ categories[c].parent_id = 0
        /\ ~is_self_or_descendant(categories, c, category_id)
        /\ c # category_id}

\* CategoryForm.validate_on_submit with the given parent choices.
CategoryForm_validate(form, parents) ==
    /\ form.type \in TransactionType
    /\ form.parent_id \in parents

Categories(why, id, cats) == [why |-> why, id |-> id, categories |-> cats]

\* POST /categories/create by user u.
categories_create(u, form) ==
    IF ~CategoryForm_validate(form, create_parent_choices(u))
    THEN Categories("invalid", 0, categories)
    ELSE LET id == NextId(categories)
             row == [user_id |-> u, type |-> form.type, parent_id |-> form.parent_id,
                     is_system |-> FALSE, is_active |-> TRUE]
         IN Categories("ok", id, Insert(categories, id, row))

\* The rows the edit's commit deletes: category.subcategories is assigned the
\* active children, which takes the inactive children out of a collection
\* that cascades "all, delete-orphan"; they are deleted with all below them.
orphans(cats, category_id) ==
    Subtree(cats, {c \in subcategories(cats, category_id) : ~cats[c].is_active}, {})

\* A transaction or a budget references one of the categories (its
\* category_id is NOT NULL, so the delete of the category fails).
referenced(ids) ==
    \/ \E t \in DOMAIN transactions : transactions[t].category_id \in ids
    \/ \E b \in DOMAIN budgets : budgets[b].category_id \in ids

\* POST /categories/<id>/edit by user u.
categories_edit(u, category_id, form) ==
    IF ~(Exists(categories, category_id) /\ categories[category_id].user_id = u)
    THEN Categories("not_found", 0, categories)
    ELSE IF categories[category_id].is_system
    THEN Categories("system", 0, categories)
    ELSE IF ~CategoryForm_validate(form, {0} \cup available_parents(u, category_id))
    THEN Categories("invalid", 0, categories)
    ELSE LET gone == orphans(categories, category_id)
             kept == [c \in DOMAIN categories \ gone |-> categories[c]]
         IN IF referenced(gone)
            THEN Categories("error", 0, categories)
            ELSE Categories("ok", category_id,
                            [kept EXCEPT ![category_id].type = form.type,
                                         ![category_id].parent_id = form.parent_id])

\* (transaction_count_bug: the count of referencing transactions is ignored.)
transaction_count_bug(u, category_id) == 0

\* Transaction.query.filter_by(category_id, user_id).count()
transaction_count(u, category_id) ==
    Cardinality({t \in DOMAIN transactions :
                    /\ transactions[t].category_id = category_id
                    /\ transactions[t].user_id = u})

\* (flatten_bug: the children are made top-level.)
flatten_bug(cats, category_id) ==
    [c \in DOMAIN cats |->
        IF c \in subcategories(cats, category_id)
        THEN [cats[c] EXCEPT !.parent_id = 0]
        ELSE cats[c]]

\* for subcat in category.subcategories: subcat.parent_id = category.parent_id
flatten(cats, category_id) ==
    [c \in DOMAIN cats |->
        IF c \in subcategories(cats, category_id)
        THEN [cats[c] EXCEPT !.parent_id = cats[category_id].parent_id]
        ELSE cats[c]]

\* POST /categories/<id>/delete by user u (soft delete).
categories_delete(u, category_id) ==
    IF ~(Exists(categories, category_id) /\ categories[category_id].user_id = u)
    THEN Categories("not_found", 0, categories)
    ELSE IF categories[category_id].is_system
    THEN Categories("system", 0, categories)
    ELSE IF transaction_count(u, category_id) > 0
    THEN Categories("conflict", 0, categories)
    ELSE Categories("ok", category_id,
                    [flatten(categories, category_id) EXCEPT ![category_id].is_active = FALSE])

\* POST /categories/<id>/restore by user u.
categories_restore(u, category_id) ==
    IF ~(Exists(categories, category_id) /\ categories[category_id].user_id = u)
    THEN Categories("not_found", 0, categories)
    ELSE Categories("ok", category_id, [categories EXCEPT ![category_id].is_active = TRUE])

\* ---------------------------------------------------- accounts and settings
\* What a handler of the account and settings pages commits.
Store(why, accts, cats, txns, trs, rows) ==
    [why |-> why, accounts |-> accts, categories |-> cats, transactions |-> txns,
     transfers |-> trs, budgets |-> rows]

\* A request of those pages that commits nothing.
Unchanged(why) == Store(why, accounts, categories, transactions, transfers, budgets)

\* AccountForm.validate_on_submit: initial_balance is DataRequired (0 is
\* refused as missing) and PositiveAmount.
AccountForm_validate(form) ==
    /\ form.initial_balance # 0
    /\ PositiveAmount(form.initial_balance)

\* POST /accounts/create by user u.
accounts_create(u, form) ==
    IF ~AccountForm_validate(form)
    THEN Unchanged("invalid")
    ELSE LET row == [user_id |-> u, initial_balance |-> form.initial_balance,
                     current_balance |-> form.initial_balance, is_active |-> TRUE]
         IN Store("ok", Insert(accounts, NextId(accounts), row), categories,
                  transactions, transfers, budgets)

\* float(account.initial_balance): a stored amount of hundredths is a binary
\* fraction exactly when it is a whole number of quarters.
float_is_exact(stored) == stored % 25 = 0

\* form.initial_balance.data != float(account.initial_balance): the Decimal of
\* the form is compared with the float by value.
initial_balance_differs(data, stored) == ~(data = stored /\ float_is_exact(stored))

\* POST /accounts/<id>/edit by user u.  When the balances differ the handler
\* subtracts a float from the form's Decimal, which raises TypeError before
\* the commit: the request fails and the session's changes are discarded.
\* Otherwise it commits the name, type and currency, which the tables of the
\* model do not hold.
accounts_edit(u, account_id, form) ==
    IF ~(Exists(accounts, account_id) /\ accounts[account_id].user_id = u)
    THEN Unchanged("not_found")
    ELSE IF ~AccountForm_validate(form)
    THEN Unchanged("invalid")
    ELSE IF initial_balance_differs(form.initial_balance, accounts[account_id].initial_balance)
    THEN Unchanged("error")
    ELSE Unchanged("ok")

\* POST /accounts/<id>/delete by user u (archives the account).
accounts_delete(u, account_id) ==
    IF ~(Exists(accounts, account_id) /\ accounts[account_id].user_id = u)
    THEN Unchanged("not_found")
    ELSE IF \E t \in DOMAIN transactions :
                transactions[t].account_id = account_id /\ transactions[t].user_id = u
    THEN Unchanged("conflict")
    ELSE Store("ok", [accounts EXCEPT ![account_id].is_active = FALSE], categories,
               transactions, transfers, budgets)

\* POST /accounts/<id>/restore by user u.
accounts_restore(u, account_id) ==
    IF ~(Exists(accounts, account_id) /\ accounts[account_id].user_id = u)
    THEN Unchanged("not_found")
    ELSE Store("ok", [accounts EXCEPT ![account_id].is_active = TRUE], categories,
               transactions, transfers, budgets)

\* The rows of a table that are not of user u.
NotOf(table, u) == [i \in {j \in DOMAIN table : table[j].user_id # u} |-> table[i]]

\* (reset_balances_bug: the balances are left as they are.)
reset_balances_bug(accts, u) == accts

\* Account.query.filter_by(user_id).update({'current_balance': 0,
\* 'initial_balance': 0})
reset_balances(accts, u) ==
    [a \in DOMAIN accts |->
        IF accts[a].user_id = u
        THEN [accts[a] EXCEPT !.current_balance = 0, !.initial_balance = 0]
        ELSE accts[a]]

\* POST /settings/clear-data by user u; confirm: the phrase was typed.
clear_data(u, confirm) ==
    IF ~confirm
    THEN Unchanged("invalid")
    ELSE Store("ok", reset_balances(accounts, u), categories, NotOf(transactions, u),
               NotOf(transfers, u), NotOf(budgets, u))

\* accounts_map.get(id), categories_map.get(id): None is written 0.
get(map, id) == IF id \in DOMAIN map THEN map[id] ELSE 0

RECURSIVE import_accounts(_, _, _, _, _)
\* The first loop of import_json_data, from the i-th account of the file on:
\* the tables and the accounts_map it leaves.
import_accounts(accts, map, list, i, u) ==
    IF i > Len(list) THEN [accounts |-> accts, map |-> map]
    ELSE LET id == NextId(accts)
             row == [user_id |-> u, initial_balance |-> list[i].initial_balance,
                     current_balance |-> list[i].current_balance,
                     is_active |-> list[i].is_active]
         IN import_accounts(Insert(accts, id, row), Insert(map, list[i].id, id), list, i + 1, u)

RECURSIVE import_categories(_, _, _, _, _)
\* The second loop: the categories as the file gives them.
import_categories(cats, map, list, i, u) ==
    IF i > Len(list) THEN [categories |-> cats, map |-> map]
    ELSE LET id == NextId(cats)
             row == [user_id |-> u, type |-> list[i].type, parent_id |-> list[i].parent_id,
                     is_system |-> list[i].is_system, is_active |-> list[i].is_active]
         IN import_categories(Insert(cats, id, row), Insert(map, list[i].id, id), list, i + 1, u)

RECURSIVE import_parents(_, _, _, _)
\* The third loop: a parent_id that names a category of the file is replaced
\* by the id that category was stored under.
import_parents(cats, map, list, i) ==
    IF i > Len(list) THEN cats
    ELSE IF list[i].parent_id # 0 /\ list[i].parent_id \in DOMAIN map
    THEN import_parents([cats EXCEPT ![map[list[i].id]].parent_id = map[list[i].parent_id]],
                        map, list, i + 1)
    ELSE import_parents(cats, map, list, i + 1)

RECURSIVE import_transactions(_, _, _, _, _, _)
\* The fourth loop: one row per transaction of the file; no balance is
\* touched.
import_transactions(txns, amap, cmap, list, i, u) ==
    IF i > Len(list) THEN txns
    ELSE LET row == [user_id |-> u, amount |-> list[i].amount, type |-> list[i].type,
                     date |-> list[i].date, account_id |-> get(amap, list[i].account_id),
                     category_id |-> get(cmap, list[i].category_id)]
         IN import_transactions(Insert(txns, NextId(txns), row), amap, cmap, list, i + 1, u)

\* The constraints of the transactions table that the commit enforces: the
\* references are NOT NULL and check_positive_amount holds.
transactions_constraints(txns) ==
    \A t \in DOMAIN txns :
        /\ txns[t].account_id # 0
        /\ txns[t].category_id # 0
        /\ check_positive_amount(txns[t].amount)

\* import_json_data(data, user_id): one commit, everything rolled back when
\* it fails.
import_json_data(data, u) ==
    LET a == import_accounts(accounts, NoRows, data.accounts, 1, u)
        c == import_categories(categories, NoRows, data.categories, 1, u)
        cats == import_parents(c.categories, c.map, data.categories, 1)
        txns == import_transactions(transactions, a.map, c.map, data.transactions, 1, u)
    IN IF transactions_constraints(txns)
       THEN Store("ok", a.accounts, cats, txns, transfers, budgets)
       ELSE Unchanged("error")

\* 'expense' if float(row['Amount']) < 0 else 'income'
txn_type(amount) == IF amount < 0 THEN EXPENSE ELSE INCOME

\* abs(float(row['Amount']))
abs(amount) == IF amount < 0 THEN 0 - amount ELSE amount

\* What a row of the CSV file does to the balances: nothing.
import_row_balance(accts, account_id, amount) == accts

RECURSIVE import_rows(_, _, _, _, _, _)
\* The loop of import_csv_data from the i-th row on.  A row names its account
\* and its category: account 0 is a name the user has no account of (one is
\* created, and found again by the later rows that use the name), category 0
\* a name the user has no category of (one is added to the session, and the
\* transaction is built before the category has an id).  account: the id of
\* the account created for the new name so far, 0 for none.
import_rows(accts, txns, account, list, i, u) ==
    IF i > Len(list) THEN [accounts |-> accts, transactions |-> txns]
    ELSE LET create == list[i].account_id = 0 /\ account = 0
             account_id == IF list[i].account_id # 0 THEN list[i].account_id
                           ELSE IF account # 0 THEN account ELSE NextId(accts)
             added == IF create
                      THEN Insert(accts, account_id,
                                  [user_id |-> u, initial_balance |-> 0,
                                   current_balance |-> 0, is_active |-> TRUE])
                      ELSE accts
             row == [user_id |-> u, amount |-> abs(list[i].amount),
                     type |-> txn_type(list[i].amount), date |-> list[i].date,
                     account_id |-> account_id, category_id |-> list[i].category_id]
         IN import_rows(import_row_balance(added, account_id, list[i].amount),
                        Insert(txns, NextId(txns), row),
                        IF create THEN account_id ELSE account, list, i + 1, u)

\* import_csv_data(csv_reader, user_id): a row that breaks a constraint
\* breaks the session, and the commit at the end rolls everything back.
import_csv_data(rows, u) ==
    LET r == import_rows(accounts, transactions, 0, rows, 1, u)
    IN IF transactions_constraints(r.transactions)
       THEN Store("ok", r.accounts, categories, r.transactions, transfers, budgets)
       ELSE Unchanged("error")

\* ------------------------------------------------------------ registration
\* The types of default_categories, in the order of the list.  The list has
\* five income and nine expense entries that differ in name, icon and colour,
\* which the tables of the model do not hold; one of each type stands for them.
default_categories == <<INCOME, EXPENSE>>

\* Category.is_system, default=False: what a row gets when the constructor is
\* not given the flag.
is_system_default == FALSE

RECURSIVE create_default_categories(_, _, _)
\* create_default_categories(user_id): one row per entry from the i-th on;
\* the constructor is given name, type, icon, color, user_id and created_at.
create_default_categories(cats, user_id, i) ==
    IF i > Len(default_categories) THEN cats
    ELSE create_default_categories(
            Insert(cats, NextId(cats),
                   [user_id |-> user_id, type |-> default_categories[i], parent_id |-> 0,
                    is_system |-> is_system_default, is_active |-> TRUE]),
            user_id, i + 1)

\* create_default_account(user_id): the "Main Account", both balances 0.
create_default_account(accts, user_id) ==
    Insert(accts, NextId(accts),
           [user_id |-> user_id, initial_balance |-> 0, current_balance |-> 0,
            is_active |-> TRUE])

\* ---------------------------------------------------------------- read side
\* The handlers below answer with figures computed from the tables; none of
\* them adds, changes or deletes a row, and none commits.
\* Days of the month of the calendar (datetime.date).
days_in_month(year, month) ==
    IF month = 2
    THEN IF year % 4 = 0 /\ (year % 100 # 0 \/ year % 400 = 0) THEN 29 ELSE 28
    ELSE IF month \in {4, 6, 9, 11} THEN 30 ELSE 31

\* date(year, month, 1)
month_start(year, month) == year * 10000 + month * 100 + 1

\* d - timedelta(days=1)
day_before(d) ==
    LET year == d \div 10000
        month == (d \div 100) % 100
        day == d % 100
    IN IF day > 1 THEN d - 1
       ELSE IF month > 1
            THEN year * 10000 + (month - 1) * 100 + days_in_month(year, month - 1)
            ELSE (year - 1) * 10000 + 1231

RECURSIVE days_before(_, _)
\* d - timedelta(days=n), a month at a time: within the month of d, or from
\* the last day of the month before.
days_before(d, n) ==
    IF n < d % 100 THEN d - n
    ELSE days_before(day_before(d - (d % 100) + 1), n - (d % 100))

\* (month_end_bug: the last day of the month is left out of the range.)
month_end_bug(year, month) ==
    IF month = 12
    THEN day_before(day_before(month_start(year + 1, 1)))
    ELSE day_before(day_before(month_start(year, month + 1)))

\* month_end: the day before the first day of the next month.
month_end(year, month) ==
    IF month = 12
    THEN day_before(month_start(year + 1, 1))
    ELSE day_before(month_start(year, month + 1))

\* The rows a sum over Transaction.amount is taken of: those of user u, of
\* the type, dated from date_from to date_to.
rows_between(u, type, date_from, date_to) ==
    {t \in DOMAIN transactions :
        /\ transactions[t].user_id = u
        /\ transactions[t].type = type
        /\ transactions[t].date >= date_from
        /\ transactions[t].date <= date_to}

\* coalesce(sum(Transaction.amount), 0) of user u's expenses of the category
\* dated from date_from to date_to.
category_spent(u, category_id, date_from, date_to) ==
    SumAmounts(transactions,
               {t \in rows_between(u, EXPENSE, date_from, date_to) :
                    transactions[t].category_id = category_id})

\* coalesce(sum(Transaction.amount), 0) of user u's transactions of the type
\* within the month.
month_total(u, type, year, month) ==
    SumAmounts(transactions,
               rows_between(u, type, month_start(year, month), month_end(year, month)))

\* a / b of two floats, kept as the pair; b = 0 raises ZeroDivisionError.
div(a, b) == [n |-> a, d |-> b]

ZeroDivisionError(q) == q.d = 0

\* round(q, 1), in tenths: the nearest tenth, a tie going to the even one.
round1(q) ==
    LET down == (q.n * 10) \div q.d
        rest == 2 * ((q.n * 10) % q.d)
    IN IF rest < q.d THEN down
       ELSE IF rest > q.d THEN down + 1
       ELSE IF down % 2 = 0 THEN down ELSE down + 1

\* (has_amount_bug: the guard "if ... > 0 else 0" is absent.)
has_amount_bug(amount) == TRUE

\* The guard of a percentage: "... if float(budget.amount) > 0 else 0",
\* "... if total_spent > 0 else 0".
has_amount(amount) == amount > 0

\* (float(spent) / float(amount)) * 100 if float(amount) > 0 else 0
percentage(spent, amount) ==
    IF has_amount(amount) THEN div(spent * 100, amount) ELSE div(0, 1)

\* Budget.remaining_amount: float(self.amount) - self.spent_amount
remaining_amount(amount, spent_amount) == amount - spent_amount

\* The month a page is asked for: the string 'YYYY-MM' of the query, written
\* as the sequence of its characters, the empty sequence for none.  The year
\* and the month of today.
today_year == Today \div 10000

today_month == (Today \div 100) % 100

\* What a read handler answers: why it answered, the budgets table after the
\* request, and the figures shown.
Shown(why, rows, shown) == [why |-> why, budgets |-> rows, shown |-> shown]

\* The budgets of user u for the month key, each with the amount spent in
\* the month attached: the loop of budgets.index.
with_spent(u, year, month) ==
    LET listed == {b \in DOMAIN budgets :
                      budgets[b].user_id = u /\ budgets[b].month = year * 100 + month}
    IN [b \in listed |->
          LET spent == category_spent(u, budgets[b].category_id,
                                      month_start(year, month), month_end(year, month))
          IN [category_id |-> budgets[b].category_id,
              amount |-> budgets[b].amount,
              spent_amount |-> spent,
              remaining_amount |-> remaining_amount(budgets[b].amount, spent),
              percentage |-> percentage(spent, budgets[b].amount)]]

\* The answer of a budget page for the year and the month it settled on:
\* date(year, month, 1) and the first day of the next month raise a
\* ValueError outside the calendar, a division by zero raises as well.
budget_page(u, year, month) ==
    IF ~date_ok(year, month)
       \/ ~(IF month = 12 THEN date_ok(year + 1, 1) ELSE date_ok(year, month + 1))
    THEN Shown("error", budgets, NoRows)
    ELSE LET shown == with_spent(u, year, month)
         IN IF \E b \in DOMAIN shown : ZeroDivisionError(shown[b].percentage)
            THEN Shown("error", budgets, NoRows)
            ELSE Shown("ok", budgets, shown)

\* GET /budgets/?month=selected_month by user u: a month that cannot be read
\* as numbers is replaced by the month of today.
budgets_index(u, selected_month) ==
    LET year == int(Slice(selected_month, 0, 4))
        month == int(Slice(selected_month, 5, 7))
    IN IF Len(selected_month) = 0 \/ year = ValueError \/ month = ValueError
       THEN budget_page(u, today_year, today_month)
       ELSE budget_page(u, year, month)

\* GET /budgets/api/budget-progress by user u: the budgets of the month of
\* today.
budget_progress(u) == budget_page(u, today_year, today_month)

\* GET /reports/budget-vs-actual?month=month by user u: a month that cannot
\* be read as numbers raises a ValueError, which the handler does not catch.
budget_vs_actual(u, month) ==
    IF Len(month) = 0 THEN budget_page(u, today_year, today_month)
    ELSE LET year == int(Slice(month, 0, 4))
             month_num == int(Slice(month, 5, 7))
         IN IF year = ValueError \/ month_num = ValueError
            THEN Shown("error", budgets, NoRows)
            ELSE budget_page(u, year, month_num)

\* The categories the breakdown has an entry for: the active categories with
\* an expense of user u in the range (join, filter, GROUP BY Category.id).
spending_entries(u, date_from, date_to) ==
    {c \in DOMAIN categories :
        /\ categories[c].is_active
        /\ \E t \in rows_between(u, EXPENSE, date_from, date_to) :
               transactions[t].category_id = c}

RECURSIVE Total(_, _)
\* sum(f[i] for i in S)
Total(f, S) ==
    IF S = {} THEN 0
    ELSE LET i == CHOOSE x \in S : TRUE IN f[i] + Total(f, S \ {i})

\* GET /reports/spending-by-category by user u for the range given (0 stands
\* for a date left out: the first of January of this year, today).
spending_by_category(u, from, to) ==
    LET date_from == IF from = 0 THEN month_start(today_year, 1) ELSE from
        date_to == IF to = 0 THEN Today ELSE to
        spending == [c \in spending_entries(u, date_from, date_to) |->
                        category_spent(u, c, date_from, date_to)]
        total_spent == Total(spending, DOMAIN spending)
        percent == [c \in DOMAIN spending |->
                        IF has_amount(total_spent)
                        THEN div(spending[c] * 100, total_spent)
                        ELSE div(0, 1)]
    IN IF \E c \in DOMAIN spending : ZeroDivisionError(percent[c])
       THEN [why |-> "error", total_spent |-> 0, data |-> NoRows]
       ELSE [why |-> "ok", total_spent |-> total_spent,
             data |-> [c \in DOMAIN spending |->
                          [value |-> spending[c], percentage |-> round1(percent[c])]]]

\* The first days of the months from the month of start to end: months_data
\* of income_vs_expense.
months_from(start, end) ==
    {d \in {month_start(year, month) :
                year \in start \div 10000 .. end \div 10000, month \in 1 .. 12} :
        d >= month_start(start \div 10000, (start \div 100) % 100) /\ d <= end}

\* GET /reports/income-vs-expense?months=months by user u: income, expense
\* and savings of each month from 30 * months days ago to today.
income_vs_expense(u, months) ==
    [first \in months_from(days_before(Today, 30 * months), Today) |->
        LET income == month_total(u, INCOME, first \div 10000, (first \div 100) % 100)
            expense == month_total(u, EXPENSE, first \div 10000, (first \div 100) % 100)
        IN [income |-> income, expense |-> expense, savings |-> income - expense]]

\* The days a period of the dashboard covers.
period_days(period) ==
    IF period = "month" THEN 30 ELSE IF period = "quarter" THEN 90 ELSE 365

\* GET /api/dashboard-data?period=period by user u: for each day from the
\* start of the period to today, the income and the expense of the day.
dashboard_data(u, period) ==
    [d \in {days_before(Today, i) : i \in 0 .. period_days(period)} |->
        [income |-> SumAmounts(transactions, rows_between(u, INCOME, d, d)),
         expense |-> SumAmounts(transactions, rows_between(u, EXPENSE, d, d))]]

\* ---------------------------------------------------------- request inputs
\* Amounts a request may carry: -1 and 0 (both refused) up to MaxAmount.
Amounts == (0 - 1) .. MaxAmount

Dates == {Today, Today + 1}

\* Every transaction request a client can send with an amount up to bound.
TransactionForms(bound) ==
    [amount : (0 - 1) .. bound, type : TransactionType, date : Dates,
     account_id : DOMAIN accounts, category_id : DOMAIN categories]

\* The requests of the ledger specification: what the pages of user u submit
\* (today's date, one of u's accounts, one of u's categories of the type
\* chosen), with the amounts 0 (refused), 1 and MaxAmount.
LedgerForms(u) ==
    {f \in TransactionForms(MaxAmount) :
        /\ f.date = Today
        /\ f.amount \in {0, 1, MaxAmount}
        /\ accounts[f.account_id].user_id = u
        /\ categories[f.category_id].user_id = u
        /\ categories[f.category_id].type = f.type}

TransferForms ==
    [amount : Amounts, date : {Today},
     from_account_id : DOMAIN accounts, to_account_id : DOMAIN accounts]

\* The transfer requests of the ledger specification: between accounts of
\* user u (the same one twice included), with any amount from 0 up.
LedgerTransferForms(u) ==
    {f \in TransferForms :
        /\ f.amount >= 0
        /\ accounts[f.from_account_id].user_id = u
        /\ accounts[f.to_account_id].user_id = u}

\* Months a budget request may name: two valid ones, a thirteenth month, and a
\* month of the last year the form's validator lets through.
Months == {202501, 202502, 202513, 210001}

BudgetForms == [category_id : DOMAIN categories, amount : 0 .. MaxAmount, month : Months]

\* Every category request a client can send: either type, any parent id.
CategoryForms == [type : TransactionType, parent_id : 0 .. MaxCategories]

\* The category requests of the category specification: expense categories
\* under any parent id (create), the stored type kept (edit).
NewCategoryForms == {f \in CategoryForms : f.type = EXPENSE}

EditCategoryForms(category_id) ==
    {f \in CategoryForms :
        category_id \in DOMAIN categories => f.type = categories[category_id].type}

\* Every form an edit of the category may carry: the type field offers both
\* types, whatever the type of the category is.
RetypeCategoryForms(category_id) == CategoryForms

\* The month values a quick-setup request may carry: none, a word, February
\* and January 2025, and a thirteenth month of 2024.
MonthStrings ==
    { <<>>, <<"b", "a", "d">>,
      <<"2", "0", "2", "5", "0", "2">>, <<"2", "0", "2", "5", "0", "1">>,
      <<"2", "0", "2", "4", "1", "3">> }

\* A well-formed six-digit YYYYMM string: six digits, the last two a month of
\* the year.
WellFormed(month) ==
    /\ Len(month) = 6
    /\ \A i \in 1 .. 6 : month[i] \in DOMAIN DigitValue
    /\ DigitsValue(SubSeq(month, 5, 6)) \in 1 .. 12

\* What a transaction of the quick-setup specification amounts to: enough for
\* 90% of a sum to differ from the sum by more than the rounding.
QuickAmount == 3 * MaxAmount

\* The transactions of the quick-setup specification: an expense of January
\* 2025 and one of today in category 2, an expense of December 2024 in
\* category 4, an income of January 2025 in category 1.
QuickForms ==
    { [amount |-> QuickAmount, type |-> EXPENSE, date |-> 20250115, account_id |-> 1,
       category_id |-> 2],
      [amount |-> QuickAmount, type |-> EXPENSE, date |-> Today, account_id |-> 1,
       category_id |-> 2],
      [amount |-> QuickAmount, type |-> EXPENSE, date |-> 20241220, account_id |-> 1,
       category_id |-> 4],
      [amount |-> QuickAmount, type |-> INCOME, date |-> 20250115, account_id |-> 1,
       category_id |-> 1] }

\* The budgets the quick-setup specification creates by the form: February
\* 2025, category 2.
QuickBudgetForms == {f \in BudgetForms : f.category_id = 2 /\ f.month = 202502}

\* The transactions of the report specification, all on the first account: an
\* expense of MaxAmount in category 2 on the last day of December 2024, the
\* first and the last day of January 2025 and the first day of February, an
\* expense of 1 in category 4 and an income of 1 on the last day of January.
ReportForms ==
    [amount : {MaxAmount}, type : {EXPENSE},
     date : {20241231, 20250101, 20250131, 20250201},
     account_id : {1}, category_id : {2}]
    \cup [amount : {1}, type : {EXPENSE}, date : {20250131}, account_id : {1},
          category_id : {4}]
    \cup [amount : {1}, type : {INCOME}, date : {20250131}, account_id : {1},
          category_id : {1}]

\* The budgets of the report specification: category 2, January and February
\* 2025, an amount of 0 (refused) or of MaxAmount.
ReportBudgetForms ==
    {f \in BudgetForms :
        f.category_id = 2 /\ f.month \in {202501, 202502} /\ f.amount \in {0, MaxAmount}}

\* The transfer of the report specification: MaxAmount from the second
\* account to the first.
ReportTransferForms ==
    {f \in TransferForms :
        f.amount = MaxAmount /\ f.from_account_id = 2 /\ f.to_account_id = 1}

\* The months a budget page may be asked for: none, January 2025, a
\* thirteenth month, a word.
SelectedMonths ==
    { <<>>, <<"2", "0", "2", "5", "-", "0", "1">>,
      <<"2", "0", "2", "5", "-", "1", "3">>, <<"b", "a", "d">> }

\* The ranges a breakdown may be asked for: none (this year up to today),
\* January 2025, the first of February 2025.
Ranges == { <<0, 0>>, <<20250101, 20250131>>, <<20250201, 20250201>> }

\* The numbers of months a trend may be asked for.
TrendMonths == {1, 2}

\* The periods the dashboard may be asked for.
Periods == {"month"}

\* ------------------------------------------------------------------ actions
\* The lists of ids a bulk delete may carry: none, one id, or two (the same id
\* twice included).
BulkIds ==
    {<<>>} \cup {<<i>> : i \in 1 .. MaxEntries}
           \cup {<<i, j>> : i \in 1 .. MaxEntries, j \in 1 .. MaxEntries}

\* The account forms: no initial balance (refused), MaxAmount hundredths, and
\* a quarter, which a float holds exactly.
AccountForms == [initial_balance : {0, MaxAmount, 25}]

\* The forms the account specification creates accounts by: no initial
\* balance (refused), or a quarter.
NewAccountForms == {f \in AccountForms : f.initial_balance \in {0, 25}}

\* The ledger requests of the settings specification: those of the ledger
\* specification that put MaxAmount on the first account.
SettingsForms(u) == {f \in LedgerForms(u) : f.amount = MaxAmount /\ f.account_id = 1}

\* The budget the settings specification creates by the form.
SettingsBudgetForms == {f \in QuickBudgetForms : f.amount = MaxAmount}

\* The JSON files of the settings specification.  A file lists at most one
\* account (under the file's id 1, with no initial balance and a current
\* balance of 0 or of -MaxAmount), at most one category, and at most one
\* transaction: an expense of 0 (refused by the table) or of MaxAmount on the
\* file's account and category.
JsonAccounts ==
    {<<>>} \cup
    {<<[id |-> 1, initial_balance |-> 0, current_balance |-> b, is_active |-> TRUE]>> :
        b \in {0, 0 - MaxAmount}}

JsonCategories ==
    {<<>>,
     <<[id |-> 1, type |-> EXPENSE, parent_id |-> 0, is_system |-> FALSE,
        is_active |-> TRUE]>>}

JsonTransactions ==
    {<<>>} \cup
    {<<[amount |-> a, type |-> EXPENSE, date |-> Today, account_id |-> 1,
        category_id |-> 1]>> : a \in {0, MaxAmount}}

JsonFiles ==
    [accounts : JsonAccounts, categories : JsonCategories, transactions : JsonTransactions]

\* The rows of a CSV file of user u: the Account column names u's first
\* account or an account u does not have (0), the Category column u's expense
\* category 2 or a category u does not have (0), the Amount column is
\* -MaxAmount (an expense) or 0.
CsvRows(u) ==
    [account_id : {0} \cup {a \in DOMAIN accounts : accounts[a].user_id = u /\ a = 1},
     category_id : {0} \cup {c \in DOMAIN categories : categories[c].user_id = u /\ c = 2},
     amount : {0 - MaxAmount, 0}, date : {Today}]

\* The CSV files: one row, or the same row twice.
CsvFiles(u) == {<<r>> : r \in CsvRows(u)} \cup {<<r, r>> : r \in CsvRows(u)}

\* The ledger is explored while it holds fewer than MaxEntries rows and the
\* table's next id is at most MaxEntries.
RoomFor(table) ==
    /\ Cardinality(DOMAIN transactions) + Cardinality(DOMAIN transfers) < MaxEntries
    /\ NextId(table) <= MaxEntries

NoSnap == [stage |-> "none", table |-> "none", id |-> 0,
           accounts |-> NoRows, transactions |-> NoRows, transfers |-> NoRows]

\* snap follows a row from its creation to its deletion by the very next
\* request: "created" holds the ledger as it was before the create that was
\* served last, "undone" says that the request after it deleted the row.
Snapshot(table, r, creates) ==
    IF creates /\ r.why = "ok"
    THEN [stage |-> "created", table |-> table, id |-> r.id, accounts |-> accounts,
          transactions |-> transactions, transfers |-> transfers]
    ELSE IF ~creates /\ r.why = "ok" /\ snap.stage = "created" /\ snap.table = table
            /\ snap.id = r.id
    THEN [snap EXCEPT !.stage = "undone"]
    ELSE NoSnap

\* The handler's commit: the tables it leaves, and the record of the request.
Serve(op, u, table, r, creates) ==
    /\ accounts' = r.accounts
    /\ transactions' = r.transactions
    /\ transfers' = r.transfers
    /\ last' = [op |-> op, why |-> r.why, user |-> u]
    /\ snap' = Snapshot(table, r, creates)
    /\ UNCHANGED <<categories, budgets, requests>>

TransactionsCreate(u, forms) ==
    \E form \in forms :
        /\ RoomFor(transactions)
        /\ Serve("transactions.create", u, "transactions", transactions_create(u, form), TRUE)

QuickAdd(u, forms) ==
    \E data \in forms :
        /\ RoomFor(transactions)
        /\ Serve("transactions.quick_add", u, "transactions", quick_add(u, data), TRUE)

TransactionsEdit(u, forms) ==
    \E id \in 1 .. MaxEntries, form \in forms :
        Serve("transactions.edit", u, "none", transactions_edit(u, id, form), FALSE)

TransactionsDelete(u) ==
    \E id \in 1 .. MaxEntries :
        Serve("transactions.delete", u, "transactions", transactions_delete(u, id), FALSE)

BulkDelete(u) ==
    \E transaction_ids \in BulkIds :
        Serve("transactions.bulk_delete", u, "none", bulk_delete(u, transaction_ids), FALSE)

TransfersCreate(u, forms) ==
    \E form \in forms :
        /\ RoomFor(transfers)
        /\ Serve("transfers.create", u, "transfers", transfers_create(u, form), TRUE)

TransfersDelete(u) ==
    \E id \in 1 .. MaxEntries :
        Serve("transfers.delete", u, "transfers", transfers_delete(u, id), FALSE)

\* The budget handlers' commit.
ServeBudget(op, u, r) ==
    /\ budgets' = r.budgets
    /\ last' = [op |-> op, why |-> r.why, user |-> u]
    /\ snap' = NoSnap
    /\ UNCHANGED <<accounts, categories, transactions, transfers, requests>>

BudgetsCreate(u, forms) ==
    \E form \in forms :
        /\ NextId(budgets) <= MaxBudgets
        /\ ServeBudget("budgets.create", u, budgets_create(u, form))

BudgetsEdit(u) ==
    \E id \in 1 .. MaxBudgets, form \in BudgetForms :
        ServeBudget("budgets.edit", u, budgets_edit(u, id, form))

BudgetsDelete(u) ==
    \E id \in 1 .. MaxBudgets :
        ServeBudget("budgets.delete", u, budgets_delete(u, id))

QuickSetup(u) ==
    \E month \in MonthStrings :
        /\ NextId(budgets) <= MaxBudgets
        /\ ServeBudget("budgets.quick_setup", u, quick_setup(u, month))

\* The category handlers' commit.
ServeCategory(op, u, r) ==
    /\ categories' = r.categories
    /\ last' = [op |-> op, why |-> r.why, user |-> u]
    /\ snap' = NoSnap
    /\ UNCHANGED <<accounts, transactions, transfers, budgets, requests>>

CategoriesCreate(u) ==
    \E form \in NewCategoryForms :
        /\ NextId(categories) <= MaxCategories
        /\ ServeCategory("categories.create", u, categories_create(u, form))

\* retype tells whether the request may name a type other than the stored one.
CategoriesEdit(u, retype) ==
    \E id \in 1 .. MaxCategories :
        \E form \in IF retype THEN RetypeCategoryForms(id) ELSE EditCategoryForms(id) :
            ServeCategory("categories.edit", u, categories_edit(u, id, form))

CategoriesDelete(u) ==
    \E id \in 1 .. MaxCategories :
        ServeCategory("categories.delete", u, categories_delete(u, id))

CategoriesRestore(u) ==
    \E id \in 1 .. MaxCategories :
        ServeCategory("categories.restore", u, categories_restore(u, id))

\* The commit of a handler of the account and settings pages.
ServeStore(op, u, r) ==
    /\ accounts' = r.accounts
    /\ categories' = r.categories
    /\ transactions' = r.transactions
    /\ transfers' = r.transfers
    /\ budgets' = r.budgets
    /\ last' = [op |-> op, why |-> r.why, user |-> u]
    /\ snap' = NoSnap
    /\ UNCHANGED requests

\* The tables a request leaves are within the ids the specification explores.
Fits(r) ==
    /\ \A a \in DOMAIN r.accounts : a <= MaxAccounts
    /\ \A c \in DOMAIN r.categories : c <= MaxCategories
    /\ \A t \in DOMAIN r.transactions : t <= MaxEntries

AccountsCreate(u) ==
    \E form \in NewAccountForms :
        /\ Fits(accounts_create(u, form))
        /\ ServeStore("accounts.create", u, accounts_create(u, form))

AccountsEdit(u) ==
    \E id \in 1 .. MaxAccounts, form \in AccountForms :
        ServeStore("accounts.edit", u, accounts_edit(u, id, form))

AccountsDelete(u) ==
    \E id \in 1 .. MaxAccounts :
        ServeStore("accounts.delete", u, accounts_delete(u, id))

AccountsRestore(u) ==
    \E id \in 1 .. MaxAccounts :
        ServeStore("accounts.restore", u, accounts_restore(u, id))

ClearData(u) ==
    \E confirm \in BOOLEAN :
        ServeStore("settings.clear_data", u, clear_data(u, confirm))

ImportJson(u) ==
    \E data \in JsonFiles :
        /\ Fits(import_json_data(data, u))
        /\ ServeStore("settings.import_json", u, import_json_data(data, u))

ImportCsv(u) ==
    \E rows \in CsvFiles(u) :
        /\ Fits(import_csv_data(rows, u))
        /\ ServeStore("settings.import_csv", u, import_csv_data(rows, u))

\* ----------------------------------------------------- interleaved requests
\* The server runs requests on concurrent threads, each with a session of its
\* own.  A handler reads the rows it needs (Begin), computes on its copies, and
\* its commit writes the columns it changed as absolute values (Commit); no
\* row is locked and no version is compared in between.
\* A request that has been answered.
Done(r) == [requests EXCEPT ![r] = [op |-> "done"]]

\* The next request to arrive, while fewer than MaxRequests have.
Arrives(r) == r = NextId(requests) /\ r <= MaxRequests

\* The rows of the accounts table a session has loaded.
Loaded(ids) == [a \in ids \cap DOMAIN accounts |-> accounts[a]]

\* UPDATE accounts SET current_balance = <value> for the loaded rows whose
\* balance the session changed.
Flush(read, session) ==
    [a \in DOMAIN accounts |->
        IF a \in DOMAIN session /\ session[a].current_balance # read[a].current_balance
        THEN [accounts[a] EXCEPT !.current_balance = session[a].current_balance]
        ELSE accounts[a]]

\* create(), up to and including Account.query.get.
BeginCreate(u, forms) ==
    \E r \in 1 .. MaxRequests, form \in forms :
        /\ Arrives(r)
        /\ TransactionForm_validate(form, account_choices(u), set_category_choices(form.type))
        /\ requests' = Insert(requests, r,
               [op |-> "transactions.create", user |-> u, form |-> form, id |-> 0,
                read |-> Loaded({form.account_id})])
        /\ UNCHANGED <<accounts, categories, transactions, transfers, budgets, last, snap>>

\* create(), from update_balance to db.session.commit().
CommitCreate ==
    \E r \in DOMAIN requests :
        LET req == requests[r]
            form == req.form
            id == NextId(transactions)
            row == [user_id |-> req.user, amount |-> form.amount, type |-> form.type,
                    date |-> form.date, account_id |-> form.account_id,
                    category_id |-> form.category_id]
            session == update_balance(req.read, form.account_id, form.type, form.amount)
        IN /\ req.op = "transactions.create"
           /\ RoomFor(transactions)
           /\ accounts' = Flush(req.read, session)
           /\ transactions' = Insert(transactions, id, row)
           /\ requests' = Done(r)
           /\ last' = [op |-> req.op, why |-> "ok", user |-> req.user]
           /\ snap' = NoSnap
           /\ UNCHANGED <<categories, transfers, budgets>>

\* edit(), up to and including the Account.query.get calls.
BeginEdit(u, forms) ==
    \E r \in 1 .. MaxRequests, id \in DOMAIN transactions, form \in forms :
        /\ Arrives(r)
        /\ transactions[id].user_id = u
        /\ TransactionForm_validate(form, account_choices(u), edit_category_choices(u))
        /\ requests' = Insert(requests, r,
               [op |-> "transactions.edit", user |-> u, form |-> form, id |-> id,
                old |-> transactions[id],
                read |-> Loaded({transactions[id].account_id, form.account_id})])
        /\ UNCHANGED <<accounts, categories, transactions, transfers, budgets, last, snap>>

\* edit(), from the balance adjustment to db.session.commit().
CommitEdit ==
    \E r \in DOMAIN requests :
        LET req == requests[r]
            form == req.form
            old == req.old
            row == [old EXCEPT !.amount = form.amount, !.type = form.type,
                               !.date = form.date, !.account_id = form.account_id,
                               !.category_id = form.category_id]
            reversed == reverse_balance(req.read, old.account_id, old.type, old.amount)
            session == update_balance(reversed, form.account_id, form.type, form.amount)
        IN /\ req.op = "transactions.edit"
           /\ Exists(transactions, req.id)
           /\ accounts' = Flush(req.read, session)
           /\ transactions' = [transactions EXCEPT ![req.id] = row]
           /\ requests' = Done(r)
           /\ last' = [op |-> req.op, why |-> "ok", user |-> req.user]
           /\ snap' = NoSnap
           /\ UNCHANGED <<categories, transfers, budgets>>

\* ------------------------------------------------------------ initial state
\* Two registered users.  Registration gives each a "Main Account" with balance
\* 0; user 1 has also created a second account with an opening balance.
InitAccounts ==
    (1 :> [user_id |-> 1, initial_balance |-> 0, current_balance |-> 0, is_active |-> TRUE]) @@
    (2 :> [user_id |-> 1, initial_balance |-> 2, current_balance |-> 2, is_active |-> TRUE]) @@
    (3 :> [user_id |-> 2, initial_balance |-> 0, current_balance |-> 0, is_active |-> TRUE])

\* Categories seeded by registration (is_system is left at its column default).
InitCategories ==
    (1 :> [user_id |-> 1, type |-> INCOME, parent_id |-> 0, is_system |-> FALSE,
           is_active |-> TRUE]) @@
    (2 :> [user_id |-> 1, type |-> EXPENSE, parent_id |-> 0, is_system |-> FALSE,
           is_active |-> TRUE]) @@
    (3 :> [user_id |-> 2, type |-> EXPENSE, parent_id |-> 0, is_system |-> FALSE,
           is_active |-> TRUE])

Init ==
    /\ accounts = InitAccounts
    /\ categories = InitCategories
    /\ transactions = NoRows
    /\ transfers = NoRows
    /\ budgets = NoRows
    /\ requests = NoRows
    /\ last = [op |-> "none", why |-> "ok", user |-> 0]
    /\ snap = NoSnap

\* The users who send requests in the ledger specifications; user 2 is the
\* other tenant, whose rows the requests may name.
Callers == {1}

Next ==
    \/ \E u \in Callers : TransactionsCreate(u, LedgerForms(u))
    \/ \E u \in Callers : QuickAdd(u, LedgerForms(u))
    \/ \E u \in Callers : TransactionsEdit(u, LedgerForms(u))
    \/ \E u \in Callers : TransactionsDelete(u)
    \/ \E u \in Callers : TransfersCreate(u, LedgerTransferForms(u))
    \/ \E u \in Callers : TransfersDelete(u)

Spec == Init /\ [][Next]_vars

\* Every request a client can send, whatever the pages offer: any account and
\* category of either user, either date, amounts from -1 up.
FullForms == TransactionForms(1)

NextFull ==
    \/ \E u \in Callers : TransactionsCreate(u, FullForms)
    \/ \E u \in Callers : QuickAdd(u, FullForms)
    \/ \E u \in Callers : TransactionsEdit(u, FullForms)
    \/ \E u \in Callers : TransactionsDelete(u)
    \/ \E u \in Callers : TransfersCreate(u, TransferForms)
    \/ \E u \in Callers : TransfersDelete(u)

SpecFull == Init /\ [][NextFull]_vars

\* Requests on concurrent threads.
NextConc ==
    \/ \E u \in Callers : BeginCreate(u, LedgerForms(u))
    \/ CommitCreate
    \/ \E u \in Callers : BeginEdit(u, LedgerForms(u))
    \/ CommitEdit

SpecConc == Init /\ [][NextConc]_vars

\* The budget pages, used by both users.
NextBudget ==
    \/ \E u \in Users : BudgetsCreate(u, BudgetForms)
    \/ \E u \in Users : BudgetsEdit(u)
    \/ \E u \in Users : BudgetsDelete(u)

SpecBudget == Init /\ [][NextBudget]_vars

\* The categories of the category specification: the seeded ones, and a system
\* category of user 1 (a JSON import stores the is_system flag it is given).
TreeCategories ==
    InitCategories @@
    (4 :> [user_id |-> 1, type |-> EXPENSE, parent_id |-> 0, is_system |-> TRUE,
           is_active |-> TRUE])

\* The expense user 1 has recorded in category 2, on the first account.
TreeTransactions ==
    1 :> [user_id |-> 1, amount |-> 1, type |-> EXPENSE, date |-> Today,
          account_id |-> 1, category_id |-> 2]

InitTree ==
    /\ accounts = update_balance(InitAccounts, 1, EXPENSE, 1)
    /\ categories = TreeCategories
    /\ transactions = TreeTransactions
    /\ transfers = NoRows
    /\ budgets = NoRows
    /\ requests = NoRows
    /\ last = [op |-> "none", why |-> "ok", user |-> 0]
    /\ snap = NoSnap

NextCategory ==
    \/ \E u \in Callers : CategoriesCreate(u)
    \/ \E u \in Callers : CategoriesEdit(u, FALSE)
    \/ \E u \in Callers : CategoriesDelete(u)
    \/ \E u \in Callers : CategoriesRestore(u)

SpecCategory == InitTree /\ [][NextCategory]_vars

\* The quick-setup specification: user 1 records transactions through the
\* quick-add API, deletes categories, creates budgets and runs quick-setup.
InitQuick ==
    /\ accounts = InitAccounts
    /\ categories = TreeCategories
    /\ transactions = NoRows
    /\ transfers = NoRows
    /\ budgets = NoRows
    /\ requests = NoRows
    /\ last = [op |-> "none", why |-> "ok", user |-> 0]
    /\ snap = NoSnap

NextQuick ==
    \/ \E u \in Callers : QuickAdd(u, QuickForms)
    \/ \E u \in Callers : CategoriesDelete(u)
    \/ \E u \in Callers : BudgetsCreate(u, QuickBudgetForms)
    \/ \E u \in Callers : QuickSetup(u)

SpecQuick == InitQuick /\ [][NextQuick]_vars

\* The expenses user 1 has recorded before the budget specification begins:
\* one of January 2025 in category 2, one of December 2024 in category 4.
SpendingTransactions ==
    (1 :> [user_id |-> 1, amount |-> 1, type |-> EXPENSE, date |-> 20250115,
           account_id |-> 1, category_id |-> 2]) @@
    (2 :> [user_id |-> 1, amount |-> 2, type |-> EXPENSE, date |-> 20241220,
           account_id |-> 1, category_id |-> 4])

InitSpending ==
    /\ accounts = update_balance(update_balance(InitAccounts, 1, EXPENSE, 1), 1, EXPENSE, 2)
    /\ categories = TreeCategories
    /\ transactions = SpendingTransactions
    /\ transfers = NoRows
    /\ budgets = NoRows
    /\ requests = NoRows
    /\ last = [op |-> "none", why |-> "ok", user |-> 0]
    /\ snap = NoSnap

\* Every budget operation, by user 1.
NextBudgetAll ==
    \/ \E u \in Callers : BudgetsCreate(u, BudgetForms)
    \/ \E u \in Callers : BudgetsEdit(u)
    \/ \E u \in Callers : BudgetsDelete(u)
    \/ \E u \in Callers : QuickSetup(u)

SpecBudgetAll == InitSpending /\ [][NextBudgetAll]_vars

\* The state after the registration of user 1, then of user 2: each has the
\* default categories and the default account, and nothing else.
SeededCategories ==
    create_default_categories(create_default_categories(NoRows, 1, 1), 2, 1)

InitSeeded ==
    /\ accounts = create_default_account(create_default_account(NoRows, 1), 2)
    /\ categories = SeededCategories
    /\ transactions = NoRows
    /\ transfers = NoRows
    /\ budgets = NoRows
    /\ requests = NoRows
    /\ last = [op |-> "none", why |-> "ok", user |-> 0]
    /\ snap = NoSnap

\* The category pages, used by user 1 after registration.
NextSeeded ==
    \/ \E u \in Callers : CategoriesCreate(u)
    \/ \E u \in Callers : CategoriesEdit(u, FALSE)
    \/ \E u \in Callers : CategoriesDelete(u)
    \/ \E u \in Callers : CategoriesRestore(u)

SpecSeeded == InitSeeded /\ [][NextSeeded]_vars

\* The category pages with every edit form: user 1 creates categories and
\* edits them to either type, the expense in category 2 being recorded.
NextRetype ==
    \/ \E u \in Callers : CategoriesCreate(u)
    \/ \E u \in Callers : CategoriesEdit(u, TRUE)

SpecRetype == InitTree /\ [][NextRetype]_vars

\* The transfer user 1 has made before the settings specification begins:
\* the opening balance of the second account, moved to the first.
SettingsTransfers ==
    1 :> [user_id |-> 1, amount |-> MaxAmount, date |-> Today,
          from_account_id |-> 2, to_account_id |-> 1]

InitSettings ==
    /\ accounts = credit(debit(InitAccounts, 2, MaxAmount), 1, MaxAmount)
    /\ categories = InitCategories
    /\ transactions = NoRows
    /\ transfers = SettingsTransfers
    /\ budgets = NoRows
    /\ requests = NoRows
    /\ last = [op |-> "none", why |-> "ok", user |-> 0]
    /\ snap = NoSnap

\* The account and settings pages next to the ledger: user 1 records
\* transactions, creates, edits, archives and restores accounts, creates
\* budgets, deletes categories and clears the data.
NextSettings ==
    \/ \E u \in Callers : TransactionsCreate(u, SettingsForms(u))
    \/ \E u \in Callers : AccountsCreate(u)
    \/ \E u \in Callers : AccountsEdit(u)
    \/ \E u \in Callers : AccountsDelete(u)
    \/ \E u \in Callers : AccountsRestore(u)
    \/ \E u \in Callers : BudgetsCreate(u, SettingsBudgetForms)
    \/ \E u \in Callers : CategoriesDelete(u)
    \/ \E u \in Callers : ClearData(u)

SpecSettings == InitSettings /\ [][NextSettings]_vars

\* The import page next to the ledger: user 1 records transactions, imports
\* JSON and CSV files and clears the data.
NextImport ==
    \/ \E u \in Callers : TransactionsCreate(u, SettingsForms(u))
    \/ \E u \in Callers : ImportJson(u)
    \/ \E u \in Callers : ImportCsv(u)
    \/ \E u \in Callers : ClearData(u)

SpecImport == InitSettings /\ [][NextImport]_vars

\* The transaction pages with the bulk delete, used by both users: each records
\* transactions on accounts of their own, edits them, and deletes them one by
\* one or in bulk.
NextBulk ==
    \/ \E u \in Users : TransactionsCreate(u, LedgerForms(u))
    \/ \E u \in Users : TransactionsEdit(u, LedgerForms(u))
    \/ \E u \in Users : TransactionsDelete(u)
    \/ \E u \in Users : BulkDelete(u)

SpecBulk == Init /\ [][NextBulk]_vars

\* A read handler's answer: no table is written, the request is recorded.
ServeRead(op, u, why) ==
    /\ last' = [op |-> op, why |-> why, user |-> u]
    /\ snap' = NoSnap
    /\ UNCHANGED <<accounts, categories, transactions, transfers, budgets, requests>>

BudgetsIndex(u) ==
    \E selected_month \in SelectedMonths :
        ServeBudget("budgets.index", u, budgets_index(u, selected_month))

BudgetProgress(u) == ServeBudget("budgets.budget_progress", u, budget_progress(u))

BudgetVsActual(u) ==
    \E month \in SelectedMonths :
        ServeBudget("reports.budget_vs_actual", u, budget_vs_actual(u, month))

SpendingByCategory(u) ==
    \E range \in Ranges :
        ServeRead("reports.spending_by_category", u,
                  spending_by_category(u, range[1], range[2]).why)

IncomeVsExpense(u) ==
    \E months \in TrendMonths :
        /\ DOMAIN income_vs_expense(u, months) # {}
        /\ ServeRead("reports.income_vs_expense", u, "ok")

DashboardData(u) ==
    \E period \in Periods :
        /\ DOMAIN dashboard_data(u, period) # {}
        /\ ServeRead("dashboard.dashboard_data", u, "ok")

\* The report specification: user 1, who has two expense categories, records
\* transactions, creates budgets, makes and deletes a transfer, and opens the
\* budget pages and the reports.
InitReports ==
    /\ accounts = InitAccounts
    /\ categories = TreeCategories
    /\ transactions = NoRows
    /\ transfers = NoRows
    /\ budgets = NoRows
    /\ requests = NoRows
    /\ last = [op |-> "none", why |-> "ok", user |-> 0]
    /\ snap = NoSnap

NextReports ==
    \/ \E u \in Callers : TransactionsCreate(u, ReportForms)
    \/ \E u \in Callers : BudgetsCreate(u, ReportBudgetForms)
    \/ \E u \in Callers : TransfersCreate(u, ReportTransferForms)
    \/ \E u \in Callers : TransfersDelete(u)
    \/ \E u \in Callers : BudgetsIndex(u)
    \/ \E u \in Callers : BudgetProgress(u)
    \/ \E u \in Callers : BudgetVsActual(u)
    \/ \E u \in Callers : SpendingByCategory(u)
    \/ \E u \in Callers : IncomeVsExpense(u)
    \/ \E u \in Callers : DashboardData(u)

SpecReports == InitReports /\ [][NextReports]_vars

\* ------------------------------------------------------------------ claims
Ok(op) == last.op = op /\ last.why = "ok"

\* The balance the ledger entries of account a add up to.
LedgerBalance(a) ==
    accounts[a].initial_balance
    + SumAmounts(transactions, {i \in DOMAIN transactions :
          transactions[i].account_id = a /\ transactions[i].type = INCOME})
    - SumAmounts(transactions, {i \in DOMAIN transactions :
          transactions[i].account_id = a /\ transactions[i].type = EXPENSE})
    - SumAmounts(transfers, {i \in DOMAIN transfers : transfers[i].from_account_id = a})
    + SumAmounts(transfers, {i \in DOMAIN transfers : transfers[i].to_account_id = a})

\* C1 -- Balance consistency: after any sequence of transaction create,
\* quick-add, edit, delete, transfer create and transfer delete requests
\* (accepted or refused), every account's current_balance is its
\* initial_balance plus its remaining income, minus its remaining expenses,
\* minus its remaining outgoing transfers, plus its remaining incoming ones.
C1_BalanceConsistency ==
    \A a \in DOMAIN accounts : accounts[a].current_balance = LedgerBalance(a)

\* A transfer and an expense are stored and an edit was just served, with a
\* balance away from its initial value.
C1_Witness ==
    /\ Ok("transactions.edit")
    /\ DOMAIN transfers # {}
    /\ \E i \in DOMAIN transactions : transactions[i].type = EXPENSE
    /\ \E a \in DOMAIN accounts : accounts[a].current_balance # accounts[a].initial_balance

\* The accounts other than a keep their balance in the step.
OthersKeepBalance(a) ==
    \A b \in DOMAIN accounts \ {a} :
        accounts'[b].current_balance = accounts[b].current_balance

\* C2 -- Edit delta: an accepted edit that keeps the transaction's account and
\* type and takes its amount from A to B changes that account's balance by
\* B - A (income) or A - B (expense), and no other account's balance.
C2_EditDelta ==
    [][ (last'.op = "transactions.edit" /\ last'.why = "ok") =>
          \E id \in DOMAIN transactions :
              /\ DOMAIN transactions' = DOMAIN transactions
              /\ \A j \in DOMAIN transactions \ {id} : transactions'[j] = transactions[j]
              /\ LET old == transactions[id]
                     new == transactions'[id]
                 IN (new.account_id = old.account_id /\ new.type = old.type) =>
                        /\ accounts'[old.account_id].current_balance
                             - accounts[old.account_id].current_balance
                           = IF old.type = INCOME THEN new.amount - old.amount
                                                  ELSE old.amount - new.amount
                        /\ OthersKeepBalance(old.account_id) ]_vars

\* An edit was just served on a ledger whose expense of MaxAmount is the only
\* entry of an account: the balance shows the edited amount.
C2_Witness ==
    /\ Ok("transactions.edit")
    /\ \E i \in DOMAIN transactions :
          /\ transactions[i].type = EXPENSE
          /\ transactions[i].amount = MaxAmount
          /\ accounts[transactions[i].account_id].current_balance
               = accounts[transactions[i].account_id].initial_balance - MaxAmount

\* C3 -- Create-then-delete reversal: a transaction created (by the form or
\* by quick-add) and deleted by the very next request leaves every account
\* and the set of stored transactions as they were before the create.
C3_CreateDeleteReversal ==
    (snap.stage = "undone" /\ snap.table = "transactions") =>
        /\ accounts = snap.accounts
        /\ transactions = snap.transactions
        /\ transfers = snap.transfers

\* A transaction was created next to an older one and deleted at once.
C3_Witness ==
    /\ snap.stage = "undone"
    /\ snap.table = "transactions"
    /\ Ok("transactions.delete")
    /\ DOMAIN transactions # {}

\* C4 -- Transfer symmetry: an accepted transfer of m from A to another
\* account B takes exactly m off A and puts exactly m on B (other accounts
\* keep their balance), and deleting it with the next request restores every
\* balance and removes the transfer.
C4_TransferSymmetry ==
    /\ (snap.stage = "created" /\ snap.table = "transfers") =>
          LET t == transfers[snap.id]
          IN /\ t.from_account_id # t.to_account_id
             /\ accounts[t.from_account_id].current_balance
                  = snap.accounts[t.from_account_id].current_balance - t.amount
             /\ accounts[t.to_account_id].current_balance
                  = snap.accounts[t.to_account_id].current_balance + t.amount
             /\ \A a \in DOMAIN accounts \ {t.from_account_id, t.to_account_id} :
                    accounts[a] = snap.accounts[a]
    /\ (snap.stage = "undone" /\ snap.table = "transfers") =>
          /\ accounts = snap.accounts
          /\ transfers = snap.transfers
          /\ snap.id \notin DOMAIN transfers

\* A transfer was made and deleted at once, on accounts that transactions
\* had moved away from their initial balances.
C4_Witness ==
    /\ snap.stage = "undone"
    /\ snap.table = "transfers"
    /\ Ok("transfers.delete")
    /\ \E a \in DOMAIN accounts : accounts[a].current_balance # accounts[a].initial_balance

\* C5 -- Concurrent balance updates: when interleaved requests of one user
\* touch the same account, each reading the balance before the other
\* commits, then once all of them have committed every account's balance
\* reflects all their effects: balance consistency holds.  (SpecConc)
C5_NoLostUpdate ==
    (\A r \in DOMAIN requests : requests[r].op = "done") =>
        \A a \in DOMAIN accounts : accounts[a].current_balance = LedgerBalance(a)

\* C6 -- Owner isolation: every stored transaction and transfer references
\* accounts and a category of the user who stored it, and the balance of an
\* account whose owner makes no request is never changed (only the users
\* of Callers make requests).  (SpecFull)
C6_OwnerIsolation ==
    /\ \A i \in DOMAIN transactions :
          /\ accounts[transactions[i].account_id].user_id = transactions[i].user_id
          /\ categories[transactions[i].category_id].user_id = transactions[i].user_id
    /\ \A i \in DOMAIN transfers :
          /\ accounts[transfers[i].from_account_id].user_id = transfers[i].user_id
          /\ accounts[transfers[i].to_account_id].user_id = transfers[i].user_id
    /\ \A a \in DOMAIN accounts :
          accounts[a].user_id \notin Callers =>
              accounts[a].current_balance = accounts[a].initial_balance

\* C7 -- Transaction validation: form create, form edit and quick-add refuse
\* an amount that is zero or negative and a date after today, and a refused
\* request stores or alters no transaction; so every stored transaction has
\* a positive amount and a date not after today (the day every request is
\* made on).  (SpecFull)
C7_TransactionValidation ==
    \A i \in DOMAIN transactions :
        /\ transactions[i].amount > 0
        /\ ~(transactions[i].date > Today)

\* C8 -- Type agreement: in every reachable state, every stored
\* transaction's type equals the type of the category it references.  (SpecFull)
C8_TypeAgreement ==
    \A i \in DOMAIN transactions :
        transactions[i].type = categories[transactions[i].category_id].type

\* C9 -- Transfer rejection: in every state, a transfer request whose two
\* accounts are the same, whose amount is zero or negative, or whose source
\* balance is below the amount is refused and commits nothing; a request for
\* exactly the source balance between two of the caller's accounts is accepted.
C9_TransferRejection ==
    \A u \in Users, form \in TransferForms :
        LET r == transfers_create(u, form)
            from == form.from_account_id
        IN /\ ( \/ form.from_account_id = form.to_account_id
                \/ form.amount <= 0
                \/ accounts[from].current_balance < form.amount )
              => /\ r.why # "ok"
                 /\ r.accounts = accounts
                 /\ r.transfers = transfers
                 /\ r.transactions = transactions
           /\ ( /\ TransferForm_validate(form, account_choices(u))
                /\ accounts[from].current_balance = form.amount )
              => /\ r.why = "ok"
                 /\ DOMAIN r.transfers # DOMAIN transfers

\* A transfer was just refused for lack of funds, while another request for
\* the whole balance of an account would be accepted.
C9_Witness ==
    /\ last.op = "transfers.create"
    /\ last.why = "insufficient"
    /\ \E u \in Users, form \in TransferForms :
          /\ TransferForm_validate(form, account_choices(u))
          /\ accounts[form.from_account_id].current_balance = form.amount

\* A stored budget of the triple (u, category_id, month).
HasBudget(u, category_id, month) ==
    \E b \in DOMAIN budgets :
        /\ budgets[b].user_id = u
        /\ budgets[b].category_id = category_id
        /\ budgets[b].month = month

\* C10 -- Budget duplicate rejection: in every state, a create request for a
\* triple (owner, category, month) that already has a budget stores nothing
\* and leaves every stored budget as it is, and when the request is
\* otherwise valid it is answered with the duplicate error.  (SpecBudget)
C10_BudgetDuplicateRejection ==
    \A u \in Users, form \in BudgetForms :
        HasBudget(u, form.category_id, form.month) =>
            LET r == budgets_create(u, form)
            IN /\ r.budgets = budgets
               /\ r.why # "ok"
               /\ BudgetForm_validate(form, budget_category_choices(u)) => r.why = "duplicate"

\* A create was just answered with the duplicate error while the budget it
\* collided with is stored.
C10_Witness ==
    /\ last.op = "budgets.create"
    /\ last.why = "duplicate"
    /\ \E form \in BudgetForms :
          /\ HasBudget(last.user, form.category_id, form.month)
          /\ BudgetForm_validate(form, budget_category_choices(last.user))

\* The categories below category_id, category_id included.
SelfAndDescendants(category_id) == Subtree(categories, {category_id}, {})

\* A chain of three categories: z under y under x.
HasChain ==
    \E x, y, z \in DOMAIN categories :
        categories[z].parent_id = y /\ categories[y].parent_id = x

\* C17 -- Category cycle rejection: in every state, an edit that names as the
\* parent of category X either X itself or a descendant of X is refused, and
\* the categories (every parent link among them) stay as they were.
\* (SpecCategory)
C17_CycleRejection ==
    \A u \in Users, id \in DOMAIN categories, form \in CategoryForms :
        (categories[id].user_id = u /\ form.parent_id \in SelfAndDescendants(id)) =>
            LET r == categories_edit(u, id, form)
            IN r.why # "ok" /\ r.categories = categories

\* An edit was just refused while a chain of three categories exists, so that
\* some category has a descendant two levels down to be refused as parent.
C17_Witness ==
    /\ last.op = "categories.edit"
    /\ last.why = "invalid"
    /\ HasChain
    /\ \E u \in Users, id \in DOMAIN categories, form \in CategoryForms :
          /\ categories[id].user_id = u
          /\ ~categories[id].is_system
          /\ form.parent_id \in SelfAndDescendants(id) \ {id}

RECURSIVE Ancestors(_, _)
\* The categories met by following parent links from category c (seen: those
\* already met; the walk stops at no parent, at a missing row, or at a
\* category met before).
Ancestors(c, seen) ==
    LET p == categories[c].parent_id
    IN IF p = 0 \/ p \notin DOMAIN categories \/ p \in seen
       THEN seen
       ELSE Ancestors(p, seen \cup {p})

\* C18 -- Category tree is cycle-free: in every reachable state, every parent
\* link leads to a stored category and no category is met again when parent
\* links are followed from it, so the walk ends at a category without
\* parent after finitely many steps.  (SpecCategory: create, edit, delete,
\* restore)
C18_CycleFree ==
    \A c \in DOMAIN categories :
        /\ categories[c].parent_id = 0 \/ categories[c].parent_id \in DOMAIN categories
        /\ categories[c].parent_id # c
        /\ c \notin Ancestors(c, {})

\* A category was just restored into a chain of three.
C18_Witness ==
    /\ Ok("categories.restore")
    /\ HasChain
    /\ \E c \in DOMAIN categories : Cardinality(Ancestors(c, {})) = 2

\* C19 -- Category delete is blocked by referential state: in every state, a
\* delete of a category of the caller that is a system category or that a
\* transaction of the caller references is refused, and leaves every
\* category (active flags and parent links) as it was.  (SpecCategory)
C19_DeleteBlocked ==
    \A u \in Users, id \in DOMAIN categories :
        ( /\ categories[id].user_id = u
          /\ \/ categories[id].is_system
             \/ \E t \in DOMAIN transactions :
                   transactions[t].category_id = id /\ transactions[t].user_id = u ) =>
            LET r == categories_delete(u, id)
            IN r.why # "ok" /\ r.categories = categories

\* A delete was just refused because of a transaction, the category having
\* a child that a delete would have moved.
C19_Witness ==
    /\ last.op = "categories.delete"
    /\ last.why = "conflict"
    /\ \E t \in DOMAIN transactions, c \in DOMAIN categories :
          /\ categories[transactions[t].category_id].is_active
          /\ categories[c].parent_id = transactions[t].category_id

\* C20 -- Category delete flattens one level: in every state, the delete of
\* a category C of the caller that is not a system category and that no
\* transaction of the caller references is accepted; it gives every child
\* of C the parent of C (none when C is top-level), marks C inactive, keeps
\* the record of C, and changes no other category.  (SpecCategory)
C20_DeleteFlattens ==
    \A u \in Users, id \in DOMAIN categories :
        ( /\ categories[id].user_id = u
          /\ ~categories[id].is_system
          /\ ~\E t \in DOMAIN transactions :
                 transactions[t].category_id = id /\ transactions[t].user_id = u ) =>
            LET r == categories_delete(u, id)
            IN /\ r.why = "ok"
               /\ DOMAIN r.categories = DOMAIN categories
               /\ \A c \in DOMAIN categories :
                     r.categories[c] =
                        IF c = id THEN [categories[c] EXCEPT !.is_active = FALSE]
                        ELSE IF categories[c].parent_id = id
                        THEN [categories[c] EXCEPT !.parent_id = categories[id].parent_id]
                        ELSE categories[c]

\* A category in the middle of a chain was just deleted: it is inactive, has
\* a parent and no child left, and its parent has an active child.
C20_Witness ==
    /\ Ok("categories.delete")
    /\ \E c, d \in DOMAIN categories :
          /\ ~categories[c].is_active
          /\ categories[c].parent_id # 0
          /\ subcategories(categories, c) = {}
          /\ d # c
          /\ categories[d].parent_id = categories[c].parent_id
          /\ categories[d].is_active

\* C11 -- Budget uniqueness invariant: in every reachable state there is at
\* most one budget per (owner, category, month), after any sequence of
\* budget create, edit (category and month included), delete and
\* quick-setup requests.  (SpecBudgetAll)
C11_BudgetUniqueness ==
    \A b, c \in DOMAIN budgets :
        ( /\ budgets[b].user_id = budgets[c].user_id
          /\ budgets[b].category_id = budgets[c].category_id
          /\ budgets[b].month = budgets[c].month ) => b = c

\* Quick-setup was just served with two budgets of one category stored, for
\* different months, so that an edit of the month of one would collide.
C11_Witness ==
    /\ Ok("budgets.quick_setup")
    /\ \E b, c \in DOMAIN budgets :
          /\ b # c
          /\ budgets[b].user_id = budgets[c].user_id
          /\ budgets[b].category_id = budgets[c].category_id
          /\ budgets[b].month # budgets[c].month

\* The well-formed month values of the request whose key the budgets table
\* admits.
ValidTargets ==
    {month \in MonthStrings :
        WellFormed(month) /\ DigitsValue(month) >= 200001 /\ DigitsValue(month) <= 209912}

\* The month before the month of a key YYYYMM; December of the year before
\* for a January.
MonthBefore(key) == IF key % 100 = 1 THEN key - 89 ELSE key - 1

\* What user u spent in category c in the month of the key: the sum of u's
\* expense transactions of the category dated in that month.
Spent(u, c, key) ==
    SumAmounts(transactions,
               {t \in DOMAIN transactions :
                   /\ transactions[t].user_id = u
                   /\ transactions[t].category_id = c
                   /\ transactions[t].type = EXPENSE
                   /\ transactions[t].date \div 100 = key})

\* The budgets of the triple among rows.
BudgetsOf(rows, u, c, key) ==
    {b \in DOMAIN rows :
        rows[b].user_id = u /\ rows[b].category_id = c /\ rows[b].month = key}

\* Quick-setup for a valid target month is served, and for every expense
\* category of the caller (every active one, if onlyActive) without a budget
\* for the target month: when the caller's expenses of the month before add
\* up to S > 0 there is exactly one budget of the triple afterwards, of 90%
\* of S to the nearest hundredth; when there is no such expense there is none.
QuickSetupComputes(onlyActive) ==
    \A u \in Users, month \in ValidTargets :
        LET key == DigitsValue(month)
            r == quick_setup(u, month)
        IN /\ r.why = "ok"
           /\ \A c \in DOMAIN categories :
                 ( /\ categories[c].user_id = u
                   /\ categories[c].type = EXPENSE
                   /\ onlyActive => categories[c].is_active
                   /\ BudgetsOf(budgets, u, c, key) = {} ) =>
                     LET S == Spent(u, c, MonthBefore(key))
                         new == BudgetsOf(r.budgets, u, c, key)
                     IN IF S > 0
                        THEN /\ Cardinality(new) = 1
                             /\ \A b \in new :
                                   /\ 10 * r.budgets[b].amount - 9 * S >= 0 - 5
                                   /\ 10 * r.budgets[b].amount - 9 * S <= 5
                        ELSE new = {}

\* C12 (as amended) -- Quick-setup computation: for every ACTIVE expense
\* category of the caller whose expenses of the calendar month before the
\* target month add up to S > 0 and which has no budget for the target
\* month, quick-setup creates exactly one budget of the triple, of 90% of S;
\* a category without expense in that month gets none; the month before a
\* January is the December of the year before.  (SpecQuick)
C12_QuickSetupComputation == QuickSetupComputes(TRUE)

\* C12 (as stated) -- the same for every expense category of the caller,
\* soft-deleted ones included.
C12_AsStated == QuickSetupComputes(FALSE)

\* Quick-setup was just served and the February budget of category 2 is 90%
\* of the two January expenses of the category together.
C12_Witness ==
    /\ Ok("budgets.quick_setup")
    /\ Spent(1, 2, 202501) = 2 * QuickAmount
    /\ \E b \in BudgetsOf(budgets, 1, 2, 202502) :
          /\ 10 * budgets[b].amount - 9 * Spent(1, 2, 202501) >= 0 - 5
          /\ 10 * budgets[b].amount - 9 * Spent(1, 2, 202501) <= 5

\* C13 -- Quick-setup skip rule: in every state, quick-setup for a target
\* month leaves every budget the caller has for that month as it is (amount
\* included), whatever was spent the month before, and no second budget of
\* its triple exists afterwards.  (SpecQuick)
C13_QuickSetupSkip ==
    \A u \in Users, month \in MonthStrings :
        LET r == quick_setup(u, month)
        IN \A b \in DOMAIN budgets :
              (budgets[b].user_id = u /\ budgets[b].month = int(month)) =>
                  /\ b \in DOMAIN r.budgets
                  /\ r.budgets[b] = budgets[b]
                  /\ BudgetsOf(r.budgets, u, budgets[b].category_id, budgets[b].month) = {b}

\* Quick-setup was just served while a February budget exists whose amount
\* is not 90% of what its category spent in January.
C13_Witness ==
    /\ Ok("budgets.quick_setup")
    /\ \E b \in DOMAIN budgets :
          /\ budgets[b].month = 202502
          /\ Spent(budgets[b].user_id, budgets[b].category_id, 202501) > 0
          /\ 10 * budgets[b].amount
               < 9 * Spent(budgets[b].user_id, budgets[b].category_id, 202501) - 5

\* C14 -- Quick-setup malformed month: quick-setup with a month value that
\* is given but is not a well-formed six-digit YYYYMM string is answered
\* with the validation failure (400, 'Invalid month format') and creates no
\* budget.  (SpecQuick)
C14_MalformedMonth ==
    \A u \in Users, month \in MonthStrings :
        (~month_missing(month) /\ ~WellFormed(month)) =>
            LET r == quick_setup(u, month)
            IN r.why = "invalid_month" /\ r.budgets = budgets

\* C15 -- Quick-setup missing month: quick-setup without a month value is
\* answered 400 'Month required' and creates no budget.  (SpecQuick)
C15_MissingMonth ==
    LET r == quick_setup(1, <<>>)
    IN r.why = "month_required" /\ r.budgets = budgets

\* Quick-setup was just answered 'Month required' while January expenses
\* without a February budget are stored.
C15_Witness ==
    /\ last.op = "budgets.quick_setup"
    /\ last.why = "month_required"
    /\ Spent(1, 2, 202501) > 0
    /\ BudgetsOf(budgets, 1, 2, 202502) = {}

\* C16 -- Budget validity: in every reachable state every stored budget has
\* an amount >= 0 and a month key within 200001..209912 whose last two
\* digits are a month of the year, after any sequence of budget create,
\* edit and quick-setup requests.  (SpecBudgetAll)
C16_BudgetValidity ==
    \A b \in DOMAIN budgets :
        /\ budgets[b].amount >= 0
        /\ budgets[b].month >= 200001
        /\ budgets[b].month <= 209912
        /\ budgets[b].month % 100 >= 1
        /\ budgets[b].month % 100 <= 12

\* C21 -- Seeded categories are protected: every category that registration
\* created for a user is still in the table exactly as registration stored it
\* (same type, same parent, still active), whatever edits and deletes the
\* users have sent since.
C21_SeededProtected ==
    \A c \in DOMAIN SeededCategories :
        /\ c \in DOMAIN categories
        /\ categories[c] = SeededCategories[c]

\* C22 -- Category type is fixed at creation: no request changes the type of
\* a category that is in the table before and after it, and so a category
\* that matched the type of the transactions referencing it still does.
C22_TypeFixed ==
    [][\A c \in DOMAIN categories \cap DOMAIN categories' :
          /\ categories'[c].type = categories[c].type
          /\ \A t \in DOMAIN transactions \cap DOMAIN transactions' :
                (/\ transactions[t] = transactions'[t]
                 /\ transactions[t].category_id = c
                 /\ transactions[t].type = categories[c].type)
                => transactions'[t].type = categories'[c].type]_vars

\* The requests of the ledger: transaction create, quick-add, edit, delete
\* and bulk delete, transfer create and delete.
LedgerOps ==
    {"transactions.create", "transactions.quick_add", "transactions.edit",
     "transactions.delete", "transactions.bulk_delete", "transfers.create",
     "transfers.delete"}

\* Every account there was is still there with the current_balance it had.
KeepsBalances(accts) ==
    \A a \in DOMAIN accounts :
        a \in DOMAIN accts /\ accts[a].current_balance = accounts[a].current_balance

\* A step leaves every current_balance as it was unless it is a ledger
\* request or one of the requests named.
BalancesFramed(others) ==
    last'.op \notin LedgerOps \cup others => KeepsBalances(accounts')

C24_ImportConsistency ==
    (last.op \in {"settings.import_json", "settings.import_csv"} /\ last.why = "ok") =>
        \A a \in DOMAIN accounts :
            accounts[a].user_id = last.user =>
                accounts[a].current_balance = LedgerBalance(a)

\* C30 -- Account edit and clear-data preserve balance consistency: an edit
\* of an account of the caller with a valid form stores the form's
\* initial_balance and moves current_balance by the difference between the
\* new and the old initial_balance; a confirmed clear-data leaves the caller
\* without transactions, transfers and budgets and with both balances of
\* every account 0; and after account creates, edits and clear-data next to
\* the ledger's requests every current_balance is what the remaining ledger
\* entries add up to.
C30_EditAndClear ==
    /\ \A a \in DOMAIN accounts : accounts[a].current_balance = LedgerBalance(a)
    /\ \A u \in Callers :
          LET r == clear_data(u, TRUE)
          IN /\ \A t \in DOMAIN r.transactions : r.transactions[t].user_id # u
             /\ \A t \in DOMAIN r.transfers : r.transfers[t].user_id # u
             /\ \A b \in DOMAIN r.budgets : r.budgets[b].user_id # u
             /\ \A a \in DOMAIN r.accounts :
                   r.accounts[a].user_id = u =>
                      r.accounts[a].current_balance = 0 /\ r.accounts[a].initial_balance = 0
    /\ \A u \in Callers, a \in DOMAIN accounts, form \in AccountForms :
          (accounts[a].user_id = u /\ AccountForm_validate(form)) =>
             LET r == accounts_edit(u, a, form)
             IN /\ r.accounts[a].initial_balance = form.initial_balance
                /\ r.accounts[a].current_balance - accounts[a].current_balance
                      = form.initial_balance - accounts[a].initial_balance

\* C27 -- Edit across accounts: an accepted edit that moves a transaction of
\* old amount and type (A, t) from account P to another account Q with new
\* amount and type (B, u) changes the current_balance of P by the reverse of
\* (A, t) (minus A for an income, plus A for an expense), that of Q by the
\* effect of (B, u), and no other account; the transaction then references Q
\* with amount B and type u, and no other transaction is changed.
C27_EditAcrossAccounts ==
    \A u \in Callers : \A id \in DOMAIN transactions, form \in LedgerForms(u) :
        LET old == transactions[id]
            r == transactions_edit(u, id, form)
            P == old.account_id
            Q == form.account_id
        IN (r.why = "ok" /\ P # Q /\ P \in DOMAIN accounts) =>
              /\ r.accounts[P].current_balance - accounts[P].current_balance
                    = IF old.type = INCOME THEN 0 - old.amount ELSE old.amount
              /\ r.accounts[Q].current_balance - accounts[Q].current_balance
                    = IF form.type = INCOME THEN form.amount ELSE 0 - form.amount
              /\ \A a \in DOMAIN accounts \ {P, Q} : r.accounts[a] = accounts[a]
              /\ DOMAIN r.accounts = DOMAIN accounts
              /\ r.transactions[id].account_id = Q
              /\ r.transactions[id].amount = form.amount
              /\ r.transactions[id].type = form.type
              /\ DOMAIN r.transactions = DOMAIN transactions
              /\ \A j \in DOMAIN transactions \ {id} : r.transactions[j] = transactions[j]

\* An edit was just served; the ledger holds one transaction, an expense of
\* MaxAmount that is on the second account: that account carries it, the
\* first account is back at its initial balance, and a form moves it back.
C27_Witness ==
    /\ Ok("transactions.edit")
    /\ DOMAIN transactions = {1}
    /\ DOMAIN transfers = {}
    /\ transactions[1].account_id = 2
    /\ transactions[1].type = EXPENSE
    /\ transactions[1].amount = MaxAmount
    /\ accounts[2].current_balance = accounts[2].initial_balance - MaxAmount
    /\ accounts[1].current_balance = accounts[1].initial_balance
    /\ \E form \in LedgerForms(1) :
          form.account_id = 1 /\ transactions_edit(1, 1, form).why = "ok"

\* The amounts of the transactions in S of the given type on account a.
Effects(S, a, type) ==
    SumAmounts(transactions, {t \in S : transactions[t].account_id = a
                                        /\ transactions[t].type = type})

\* The listed transactions that the caller owns.
Owned(u, transaction_ids) ==
    {t \in DOMAIN transactions :
        /\ transactions[t].user_id = u
        /\ \E k \in DOMAIN transaction_ids : transaction_ids[k] = t}

\* C28 -- Bulk delete is a single all-or-nothing step: a bulk delete of a
\* list of ids commits, in one step, the ledger without the listed
\* transactions of the caller and with each one's effect taken back exactly
\* once from its account (however often the list names it), which is the
\* ledger that deleting them one by one leaves; the transactions of other
\* users that the list names, every other transaction, the transfers and the
\* accounts without a deleted transaction are as they were.
C28_BulkDelete ==
    /\ \A u \in Users, transaction_ids \in BulkIds \ {<<>>} :
          LET r == bulk_delete(u, transaction_ids)
              gone == Owned(u, transaction_ids)
          IN /\ r.why = "ok"
             /\ DOMAIN r.transactions = DOMAIN transactions \ gone
             /\ \A t \in DOMAIN r.transactions : r.transactions[t] = transactions[t]
             /\ r.transfers = transfers
             /\ DOMAIN r.accounts = DOMAIN accounts
             /\ \A a \in DOMAIN accounts :
                   r.accounts[a] =
                      [accounts[a] EXCEPT !.current_balance =
                          @ - Effects(gone, a, INCOME) + Effects(gone, a, EXPENSE)]
    /\ \A u \in Users, id \in DOMAIN transactions :
          transactions[id].user_id = u =>
             /\ bulk_delete(u, <<id>>).accounts = transactions_delete(u, id).accounts
             /\ bulk_delete(u, <<id>>).transactions = transactions_delete(u, id).transactions

\* A bulk delete was just served for user 1 and has left the ledger with the
\* second transaction alone, which is of user 2 and still counted in the
\* balance of its account; the accounts of user 1 are back at their initial
\* balance.
C28_Witness ==
    /\ Ok("transactions.bulk_delete")
    /\ last.user = 1
    /\ DOMAIN transactions = {2}
    /\ transactions[2].user_id = 2
    /\ \A a \in DOMAIN accounts :
          /\ accounts[a].current_balance = LedgerBalance(a)
          /\ accounts[a].user_id = 1 =>
                accounts[a].current_balance = accounts[a].initial_balance
    /\ \E a \in DOMAIN accounts : accounts[a].current_balance # accounts[a].initial_balance

\* C29 -- Budget spent and remaining: for every budget, the amount spent the
\* budget pages compute (the budget list asked for the budget's month, the
\* budget-vs-actual report asked for it, the progress of the month of today)
\* is the sum of the amounts of the owner's expense transactions of the
\* budget's category dated within the calendar month of the budget's month
\* key, first and last day included, and 0 when there are none; the remaining
\* amount is the budget amount minus the amount spent, below 0 when more was
\* spent; and the pages leave every stored budget, transaction and account as
\* it was.
Digits == <<"0", "1", "2", "3", "4", "5", "6", "7", "8", "9">>

\* The last digit of n, as a character.
Digit(n) == Digits[(n % 10) + 1]

\* The string 'YYYY-MM' of a month key.
MonthString(key) ==
    << Digit(key \div 100000), Digit(key \div 10000), Digit(key \div 1000),
       Digit(key \div 100), "-", Digit(key \div 10), Digit(key) >>

\* The expenses of the budget's owner in the budget's category whose date
\* lies in the month of the budget's key.
MonthExpenses(b) ==
    {t \in DOMAIN transactions :
        /\ transactions[t].user_id = budgets[b].user_id
        /\ transactions[t].type = EXPENSE
        /\ transactions[t].category_id = budgets[b].category_id
        /\ transactions[t].date \div 100 = budgets[b].month}

MonthSpent(b) == SumAmounts(transactions, MonthExpenses(b))

\* The page shows budget b with the amount spent and the amount remaining.
ShowsRight(page, b) ==
    /\ page.why = "ok"
    /\ b \in DOMAIN page.shown
    /\ page.shown[b].spent_amount = MonthSpent(b)
    /\ page.shown[b].remaining_amount = budgets[b].amount - MonthSpent(b)
    /\ (MonthExpenses(b) = {} => page.shown[b].spent_amount = 0)
    /\ (MonthSpent(b) > budgets[b].amount => page.shown[b].remaining_amount < 0)

ReadOps ==
    {"budgets.index", "budgets.budget_progress", "reports.budget_vs_actual",
     "reports.spending_by_category", "reports.income_vs_expense",
     "dashboard.dashboard_data"}

C29_BudgetSpent ==
    /\ [](\A u \in Callers :
            /\ \A b \in DOMAIN budgets :
                  budgets[b].user_id = u =>
                      /\ ShowsRight(budgets_index(u, MonthString(budgets[b].month)), b)
                      /\ ShowsRight(budget_vs_actual(u, MonthString(budgets[b].month)), b)
                      /\ (budgets[b].month = Today \div 100 =>
                              /\ ShowsRight(budget_progress(u), b)
                              /\ ShowsRight(budgets_index(u, <<>>), b))
            /\ \A month \in SelectedMonths :
                  /\ budgets_index(u, month).budgets = budgets
                  /\ budget_vs_actual(u, month).budgets = budgets
                  /\ \A b \in DOMAIN budgets_index(u, month).shown :
                        ShowsRight(budgets_index(u, month), b))
    /\ [][last'.op \in ReadOps =>
            UNCHANGED <<accounts, categories, transactions, transfers, budgets>>]_vars

\* The budget list has been shown while a January budget of category 2 is
\* overspent by the expenses of the first and of the last day of January.
C29_Witness ==
    /\ Ok("budgets.index")
    /\ \E b \in DOMAIN budgets :
          /\ budgets[b].month = 202501
          /\ MonthSpent(b) > budgets[b].amount
          /\ \E t \in MonthExpenses(b) : transactions[t].date = 20250131
          /\ \E t \in MonthExpenses(b) : transactions[t].date = 20250101

\* C25 -- Transfers are invisible to aggregates: a request that creates or
\* deletes a transfer changes none of the figures a user is shown: the income and
\* the expense of the month, the breakdown of the expenses by category, the
\* income, expense and savings of each month of the trend, the income and
\* expense of each day, and the amount spent and remaining of every budget
\* are the same before and after the request.
Figures(u) ==
    [income |-> month_total(u, INCOME, today_year, today_month),
     expense |-> month_total(u, EXPENSE, today_year, today_month),
     breakdown |-> [range \in Ranges |-> spending_by_category(u, range[1], range[2])],
     trend |-> [months \in TrendMonths |-> income_vs_expense(u, months)],
     days |-> [period \in Periods |-> dashboard_data(u, period)],
     budgets |-> [month \in SelectedMonths |-> budgets_index(u, month).shown],
     report |-> [month \in SelectedMonths |-> budget_vs_actual(u, month).shown]]

C25_TransfersInvisible ==
    [][last'.op \in {"transfers.create", "transfers.delete"} /\ last'.why = "ok" =>
          \A u \in Users : Figures(u)' = Figures(u)]_vars

\* A transfer has been deleted while the owner has an expense that counts
\* against a budget: the transfer was made and undone next to figures that
\* are not all 0.
C25_Witness ==
    /\ Ok("transfers.delete")
    /\ last.user = 1
    /\ \E b \in DOMAIN budgets : budgets[b].user_id = 1 /\ MonthSpent(b) > 0
    /\ Figures(1).breakdown[<<0, 0>>].total_spent > 0

\* C26 -- Percentage of zero: in the breakdown of the expenses by category,
\* the percentage of an entry is its total divided by the sum of the totals
\* of the entries of the same answer, times 100, rounded to one decimal
\* place, and it is 0 for every entry when that sum is 0; the percentage
\* spent of a budget is 0 when the amount of the budget is 0, and the amount
\* spent divided by the amount of the budget, times 100, otherwise; no
\* percentage fails on a division by zero, for any range, month or amount.
\* Percentages of the breakdown are counted in tenths.
SumOfTotals(data) == Total([c \in DOMAIN data |-> data[c].value], DOMAIN data)

\* p tenths of a percent is value / sum * 100 to the nearest tenth.
Nearest(p, value, sum) ==
    /\ 2 * (p * sum - 1000 * value) <= sum
    /\ 2 * (1000 * value - p * sum) <= sum

\* p tenths of a percent is value / sum * 100.
Exact(p, value, sum) == p * sum = 1000 * value

\* The percentages of every breakdown are as close to the quotients as
\* Close says, and no budget percentage fails.
Percentages(Close(_, _, _)) ==
    \A u \in Callers :
        /\ \A range \in Ranges :
              LET r == spending_by_category(u, range[1], range[2])
              IN /\ r.why = "ok"
                 /\ r.total_spent = SumOfTotals(r.data)
                 /\ \A c \in DOMAIN r.data :
                       IF SumOfTotals(r.data) = 0
                       THEN r.data[c].percentage = 0
                       ELSE Close(r.data[c].percentage, r.data[c].value,
                                  SumOfTotals(r.data))
        /\ budget_progress(u).why = "ok"
        /\ budgets_index(u, <<>>).why = "ok"
        /\ \A b \in DOMAIN budgets :
              budgets[b].user_id = u =>
                  LET r == budget_vs_actual(u, MonthString(budgets[b].month))
                  IN /\ r.why = "ok"
                     /\ r.shown[b].percentage
                            = percentage(MonthSpent(b), budgets[b].amount)
        /\ \A spent \in 0 .. MaxEntries * MaxAmount, amount \in 0 .. MaxAmount :
              /\ ~ZeroDivisionError(percentage(spent, amount))
              /\ (amount = 0 => percentage(spent, amount).n = 0)
              /\ (amount > 0 => percentage(spent, amount) = div(spent * 100, amount))

C26_PercentageOfZero == Percentages(Nearest)

\* C26 as stated: the percentage of an entry is the quotient itself.
C26_AsStated == Percentages(Exact)

\* The breakdown has been shown while the expenses of the year are 1 in one
\* category and MaxAmount in another, a budget is kept, and no expense is
\* dated the first of February: the breakdown of that day has a sum of 0.
C26_Witness ==
    /\ Ok("reports.spending_by_category")
    /\ budgets # NoRows
    /\ LET r == spending_by_category(1, 0, 0)
       IN /\ Cardinality(DOMAIN r.data) = 2
          /\ \E c \in DOMAIN r.data : r.data[c].value = 1
          /\ \E c \in DOMAIN r.data : r.data[c].value = MaxAmount
    /\ spending_by_category(1, 20250201, 20250201).total_spent = 0

====
